---- MODULE Spec2Model ----
(***************************************************************************)
(* A model of the novelai CLI: the request-JSON pipeline of                *)
(* cli/generation.py (classification, sanitisation, stream-mode            *)
(* normalisation, validation, dispatch, persistence) and the interactive   *)
(* session loop of cli/interactive.py.                                     *)
(*                                                                         *)
(* Specifications:                                                         *)
(*   SpecSanitize   _sanitize_low_level_payload applied once and twice     *)
(*   SpecNormalize  _normalize_low_level_stream_mode applied once          *)
(*   Spec           generate_from_request_json, step by step               *)
(*   SpecInteractive interactive_loop, line by line                        *)
(***************************************************************************)
EXTENDS Integers, Sequences, FiniteSets, TLC

(***************************************************************************)
(* Bounds of the model.                                                    *)
(***************************************************************************)
MaxTopLen == 3      \* keys in the envelope of a request document
MaxParamLen == 2    \* keys in its nested "parameters" block
MaxChunks == 3      \* chunks the transport yields in one stream
MaxImages == 2      \* images one single-response dispatch returns
MaxLines == 2       \* lines read by one interactive session

(***************************************************************************)
(* JSON values.  Every value is a record of the same shape, so that values *)
(* of different JSON types can be compared: kind is "null", "str", "num"   *)
(* or "obj"; a mapping (kind "obj") is a key-ordered sequence of           *)
(* <<key, value>> pairs with distinct keys, as a Python dict is.           *)
(***************************************************************************)
JNull == [kind |-> "null", s |-> "", n |-> 0, m |-> <<>>]
JStr(str) == [kind |-> "str", s |-> str, n |-> 0, m |-> <<>>]
JNum(num) == [kind |-> "num", s |-> "", n |-> num, m |-> <<>>]
JObj(map) == [kind |-> "obj", s |-> "", n |-> 0, m |-> map]

\* Python's None: what json.loads gives for null and what dict.get gives
\* for a missing key.
PyNone == JNull

KeysOf(map) == {map[i][1] : i \in 1..Len(map)}
KeySeq(map) == [i \in 1..Len(map) |-> map[i][1]]
HasKey(map, k) == \E i \in 1..Len(map) : map[i][1] = k
IndexOf(map, k) == CHOOSE i \in 1..Len(map) : map[i][1] = k

\* dict.get(k)
DictGet(map, k) == IF HasKey(map, k) THEN map[IndexOf(map, k)][2] ELSE PyNone

\* d[k] = v: an existing key keeps its position, a new key goes last
DictSet(map, k, v) ==
    IF HasKey(map, k)
    THEN [map EXCEPT ![IndexOf(map, k)] = <<k, v>>]
    ELSE Append(map, <<k, v>>)

\* {k: v for k, v in d.items() if k in allowed}
DictFilter(map, allowed) == SelectSeq(map, LAMBDA pr : pr[1] \in allowed)

\* All mappings over keys, at most maxLen long, the value of key k drawn
\* from Vals(k).
RECURSIVE Mappings(_, _, _)
Mappings(keys, Vals(_), maxLen) ==
    IF maxLen = 0 THEN {<<>>}
    ELSE LET shorter == Mappings(keys, Vals, maxLen - 1)
         IN  shorter \cup UNION { UNION { { Append(map, <<k, v>>) : v \in Vals(k) }
                                          : k \in keys \ KeysOf(map) }
                                  : map \in {x \in shorter : Len(x) = maxLen - 1} }

(***************************************************************************)
(* The request documents the model draws from.                             *)
(***************************************************************************)
ParamKeys == {"stream", "steps", "ext_a", "ext_b"}
ParamVals(k) ==
    CASE k = "stream" -> {JStr("sse"), JStr("msgpack"), JNull}
      [] k = "steps"  -> {JNum(28), JNum(60)}
      [] OTHER        -> {JStr("v")}
ParamMaps == Mappings(ParamKeys, ParamVals, MaxParamLen)

TopKeys == {"input", "action", "parameters", "model", "prompt", "zz_unknown"}
TopVals(k) ==
    CASE k = "parameters" -> {JObj(map) : map \in ParamMaps} \cup {JStr("v"), JNull}
      [] k = "prompt"     -> {JStr("cat")}
      [] k = "model"      -> {JStr("nai-diffusion-4-5-full")}
      [] OTHER            -> {JStr("v")}
Payloads == Mappings(TopKeys, TopVals, MaxTopLen)

(***************************************************************************)
(* Console output (cli/output.py): one record per message.                 *)
(***************************************************************************)
Msg(ch, msg, n, v) == [ch |-> ch, msg |-> msg, n |-> n, v |-> v]
info(msg, n) == Msg("info", msg, n, JNull)
success(msg, n) == Msg("success", msg, n, JNull)
warn(msg, v) == Msg("warn", msg, 0, v)
fail(msg, detail) == Msg("fail", msg, 0, JStr(detail))

(***************************************************************************)
(* Field sanitizer, request classifier, stream-mode normalizer.            *)
(***************************************************************************)
\* The keys the low-level schemas declare (ImageGenerationRequest and
\* StreamImageGenerationRequest; ImageParameters and ImageStreamParameters).
allowed_top == {"input", "model", "action", "parameters"}
allowed_params == {"steps", "stream"}

\* _as_object_dict: a copy of the mapping, or None for anything else.  The
\* keys of a JSON object are strings, so the adapter accepts every mapping.
_as_object_dict(value) ==
    IF value.kind = "obj" THEN [isNone |-> FALSE, m |-> value.m]
                          ELSE [isNone |-> TRUE, m |-> <<>>]

\* The outcome of a call: the value returned, the state of the object that
\* was passed in once the call is over, whether the call raised, and the
\* warnings it printed.
Outcome(ret, arg, raised, warns) ==
    [ret |-> ret, arg |-> arg, raised |-> raised, warns |-> warns]
NoOutcome == Outcome(<<>>, <<>>, FALSE, <<>>)

\* Mutant: the unknown keys are deleted while the mapping is iterated, so
\* only the first unknown key of each level goes.
DropFirstUnknown(map, allowed) ==
    IF \A i \in 1..Len(map) : map[i][1] \in allowed THEN map
    ELSE LET first == CHOOSE i \in 1..Len(map) :
                        /\ map[i][1] \notin allowed
                        /\ \A j \in 1..(i - 1) : map[j][1] \in allowed
         IN  SubSeq(map, 1, first - 1) \o SubSeq(map, first + 1, Len(map))
_sanitize_drop_first_unknown(payload) ==
    LET cleaned == DropFirstUnknown(payload, allowed_top)
        parameters_obj == _as_object_dict(DictGet(cleaned, "parameters"))
        result == IF ~parameters_obj.isNone
                  THEN DictSet(cleaned, "parameters",
                               JObj(DropFirstUnknown(parameters_obj.m, allowed_params)))
                  ELSE cleaned
    IN  Outcome(result, payload, FALSE, <<>>)

\* Mutant: the payload itself is filtered and returned.
_sanitize_in_place(payload) ==
    LET cleaned == DictFilter(payload, allowed_top)
        parameters_obj == _as_object_dict(DictGet(cleaned, "parameters"))
        result == IF ~parameters_obj.isNone
                  THEN DictSet(cleaned, "parameters",
                               JObj(DictFilter(parameters_obj.m, allowed_params)))
                  ELSE cleaned
    IN  Outcome(result, result, FALSE, <<>>)

_sanitize_low_level_payload(payload) ==
    LET cleaned == DictFilter(payload, allowed_top)
        parameters_obj == _as_object_dict(DictGet(cleaned, "parameters"))
        result == IF ~parameters_obj.isNone
                  THEN DictSet(cleaned, "parameters",
                               JObj(DictFilter(parameters_obj.m, allowed_params)))
                  ELSE cleaned
    IN  Outcome(result, payload, FALSE, <<>>)

\* Mutant: the override does not look at force_stream.
_normalize_ignores_flag(payload, force_stream) ==
    LET parameters_obj == _as_object_dict(DictGet(payload, "parameters"))
        params == parameters_obj.m
        stream_value == DictGet(params, "stream")
        override == stream_value # JStr("sse")
    IN  IF parameters_obj.isNone
        THEN Outcome(payload, payload, FALSE, <<>>)
        ELSE Outcome(
               IF override
               THEN DictSet(payload, "parameters",
                            JObj(DictSet(params, "stream", JStr("sse"))))
               ELSE payload,
               payload, FALSE,
               IF override /\ stream_value # PyNone
               THEN <<warn("stream not supported, overriding to sse", stream_value)>>
               ELSE <<>>)

\* Mutant: the warning does not depend on a value having been declared.
_normalize_warns_unconditionally(payload, force_stream) ==
    LET parameters_obj == _as_object_dict(DictGet(payload, "parameters"))
        params == parameters_obj.m
        stream_value == DictGet(params, "stream")
        override == force_stream /\ stream_value # JStr("sse")
    IN  IF parameters_obj.isNone
        THEN Outcome(payload, payload, FALSE, <<>>)
        ELSE Outcome(
               IF override
               THEN DictSet(payload, "parameters",
                            JObj(DictSet(params, "stream", JStr("sse"))))
               ELSE payload,
               payload, FALSE,
               IF override
               THEN <<warn("stream not supported, overriding to sse", stream_value)>>
               ELSE <<>>)

_normalize_low_level_stream_mode(payload, force_stream) ==
    LET parameters_obj == _as_object_dict(DictGet(payload, "parameters"))
        normalized == payload
        params == parameters_obj.m
        stream_value == DictGet(params, "stream")
        override == force_stream /\ stream_value # JStr("sse")
    IN  IF parameters_obj.isNone
        THEN Outcome(payload, payload, FALSE, <<>>)
        ELSE Outcome(
               IF override
               THEN DictSet(normalized, "parameters",
                            JObj(DictSet(params, "stream", JStr("sse"))))
               ELSE normalized,
               payload, FALSE,
               IF override /\ stream_value # PyNone
               THEN <<warn("stream not supported, overriding to sse", stream_value)>>
               ELSE <<>>)

\* Mutant: the parameters value is not required to be a mapping.
is_low_level_any_parameters(payload) ==
    /\ HasKey(payload, "parameters")
    /\ (HasKey(payload, "input") \/ HasKey(payload, "action"))

\* Mutant: the envelope keys "input" and "action" are not looked for.
is_low_level_parameters_only(payload) ==
    DictGet(payload, "parameters").kind = "obj"

\* generate_from_request_json, the classification of the loaded payload
is_low_level(payload) ==
    /\ DictGet(payload, "parameters").kind = "obj"
    /\ (HasKey(payload, "input") \/ HasKey(payload, "action"))

(***************************************************************************)
(* Paths (pathlib.Path): a sequence of names, each a stem and a suffix;    *)
(* the empty sequence is ".".                                              *)
(***************************************************************************)
Name(stem, ext) == [stem |-> stem, ext |-> ext]
PathSuffix(path) == IF path = <<>> THEN "" ELSE path[Len(path)].ext
PathParent(path) == IF path = <<>> THEN <<>> ELSE SubSeq(path, 1, Len(path) - 1)
PathJoin(path, name) == Append(path, name)
\* Path.mkdir(parents=True, exist_ok=True): the directory and its ancestors
MkdirParents(path) == {SubSeq(path, 1, i) : i \in 1..Len(path)}

\* f"{n:04d}"
Digit(d) ==
    CASE d = 0 -> "0" [] d = 1 -> "1" [] d = 2 -> "2" [] d = 3 -> "3" [] d = 4 -> "4"
      [] d = 5 -> "5" [] d = 6 -> "6" [] d = 7 -> "7" [] d = 8 -> "8" [] d = 9 -> "9"
RECURSIVE Decimal(_)
Decimal(n) == IF n < 10 THEN Digit(n) ELSE Decimal(n \div 10) \o Digit(n % 10)
RECURSIVE NumDigits(_)
NumDigits(n) == IF n < 10 THEN 1 ELSE 1 + NumDigits(n \div 10)
RECURSIVE ZeroPad(_, _)
ZeroPad(n, width) ==
    IF NumDigits(n) >= width THEN Decimal(n) ELSE "0" \o ZeroPad(n, width - 1)
Format04d(n) == IF NumDigits(n) >= 4 THEN Decimal(n) ELSE ZeroPad(n, 4)

\* The file system: a write replaces the file's content.
WriteFile(fs, path, data) ==
    [q \in DOMAIN fs \cup {path} |-> IF q = path THEN data ELSE fs[q]]
NoFiles == [q \in {} |-> <<>>]

(***************************************************************************)
(* base64.b64decode on the chunk images the transport yields: characters   *)
(* in groups of four, "=" padding the last group.                          *)
(***************************************************************************)
B64Value(c) ==
    CASE c = "D" -> 3 [] c = "I" -> 8 [] c = "J" -> 9 [] c = "Q" -> 16 [] c = "U" -> 20
RECURSIVE b64decode(_)
b64decode(text) ==
    IF Len(text) = 0 THEN <<>>
    ELSE LET v1 == B64Value(text[1])
             v2 == B64Value(text[2])
             b1 == v1 * 4 + v2 \div 16
             rest == b64decode(SubSeq(text, 5, Len(text)))
         IN  IF text[3] = "=" THEN <<b1>>
             ELSE LET v3 == B64Value(text[3])
                      b2 == (v2 % 16) * 16 + v3 \div 4
                  IN  IF text[4] = "=" THEN <<b1, b2>>
                      ELSE <<b1, b2, (v3 % 4) * 64 + B64Value(text[4])>> \o rest

\* the encoded images a stream chunk may carry: "QQ==" (A), "QUJD" (ABC)
ChunkImages == { <<"Q", "Q", "=", "=">>, <<"Q", "U", "J", "D">> }

\* the images a single-response dispatch returns: opaque byte buffers
ImageBytes(i) == <<200 + i>>

(***************************************************************************)
(* Python values held by the argparse namespace, in the same record shape  *)
(* as JSON values.  A float is held in thousandths (0.01 is 10); NaN is    *)
(* the float whose s is "nan".                                             *)
(***************************************************************************)
PInt(num) == [kind |-> "int", s |-> "", n |-> num, m |-> <<>>]
PFloat(milli) == [kind |-> "float", s |-> "", n |-> milli, m |-> <<>>]
PNaN == [kind |-> "float", s |-> "nan", n |-> 0, m |-> <<>>]
PStr(str) == JStr(str)
PBool(b) == [kind |-> "bool", s |-> "", n |-> IF b THEN 1 ELSE 0, m |-> <<>>]

\* bool(value)
Truthy(value) ==
    CASE value.kind = "null"  -> FALSE
      [] value.kind = "str"   -> value.s # ""
      [] value.kind = "bool"  -> value.n = 1
      [] value.kind = "float" -> value.s = "nan" \/ value.n # 0
      [] OTHER                -> value.n # 0

\* a <= b on numbers: every comparison with NaN is false
NumLeq(a, b) == a.s # "nan" /\ b.s # "nan" /\ a.n <= b.n
NumLess(a, b) == a.s # "nan" /\ b.s # "nan" /\ a.n < b.n

(***************************************************************************)
(* cli/constants.py and the parser's defaults.                             *)
(***************************************************************************)
MODEL_CHOICES ==
    {"nai-diffusion-4-5-full", "nai-diffusion-4-5-curated", "nai-diffusion-4-full",
     "nai-diffusion-4-curated", "nai-diffusion-3", "nai-diffusion-3-furry"}
SAMPLER_CHOICES == {"k_euler_ancestral", "k_euler", "k_dpmpp_2m"}
UC_PRESET_CHOICES == {"light", "heavy", "none"}
REF_TYPE_CHOICES == {"character", "style", "character&style"}
DEFAULT_MODEL == "nai-diffusion-4-5-full"
DEFAULT_SAMPLER == "k_euler_ancestral"
DEFAULT_UC_PRESET == "light"

\* build_parser, parsed with no arguments: parser.parse_args([])
Defaults ==
    [prompt |-> PyNone,
     interactive |-> PBool(FALSE),
     output |-> PStr("output"),
     request_json |-> PyNone,
     request_json_stdin |-> PBool(FALSE),
     model |-> PStr(DEFAULT_MODEL),
     size |-> PStr("portrait"),
     steps |-> PInt(23),
     scale |-> PFloat(5000),
     sampler |-> PStr(DEFAULT_SAMPLER),
     seed |-> PyNone,
     quality |-> PBool(TRUE),
     uc_preset |-> PStr(DEFAULT_UC_PRESET),
     negative_prompt |-> PyNone,
     reference |-> PyNone,
     ref_type |-> PStr("character&style"),
     ref_fidelity |-> PFloat(1000),
     ref_strength |-> PFloat(1000),
     character_prompt |-> PyNone,
     controlnet |-> PyNone,
     controlnet_strength |-> PFloat(600),
     image |-> PyNone,
     strength |-> PFloat(700),
     n_images |-> PInt(1),
     noise |-> PFloat(0),
     stream |-> PBool(FALSE),
     stream_dir |-> PStr("streaming_output")]

\* Mutant: the range test is written as two rejections, which NaN passes.
_validate_range_naive(value, min_value, max_value) ==
    ~NumLess(value, min_value) /\ ~NumLess(max_value, value)

\* _validate_range
_validate_range(value, min_value, max_value) ==
    NumLeq(min_value, value) /\ NumLeq(value, max_value)

\* validate_args: TRUE when no ValueError is raised
validate_args(ns) ==
    /\ ~NumLess(ns.steps, PInt(1))
    /\ ~NumLess(PInt(50), ns.steps)
    /\ ~NumLess(ns.n_images, PInt(1))
    /\ ~NumLess(PInt(8), ns.n_images)
    /\ _validate_range(ns.scale, PFloat(0), PFloat(10000))
    /\ _validate_range(ns.ref_fidelity, PFloat(0), PFloat(1000))
    /\ _validate_range(ns.ref_strength, PFloat(0), PFloat(1000))
    /\ _validate_range(ns.controlnet_strength, PFloat(10), PFloat(1000))
    /\ _validate_range(ns.strength, PFloat(10), PFloat(990))
    /\ _validate_range(ns.noise, PFloat(0), PFloat(990))

(***************************************************************************)
(* Strings the model can convert: str.lower, str.replace("-", "_"),        *)
(* int(), float(), Path(), parse_size, each on the literals used below.    *)
(***************************************************************************)
\* str.lower(): the words of the model are lower case but for these
Lower(word) ==
    CASE word = "SET" -> "set" [] word = "Quit" -> "quit" [] word = "EXIT" -> "exit"
      [] word = "ST" -> "st" [] word = "Steps" -> "steps" [] word = "M" -> "m"
      [] word = "TRUE" -> "true" [] word = "None" -> "none" [] word = "Off" -> "off"
      [] word = "Model" -> "model" [] word = "Res" -> "res" [] word = "Size" -> "size"
      [] word = "RESOLUTION" -> "resolution" [] word = "CFG" -> "cfg"
      [] word = "SCALE" -> "scale" [] word = "Sp" -> "sp" [] word = "Sampler" -> "sampler"
      [] OTHER -> word

\* str.replace("-", "_")
ReplaceDash(word) ==
    CASE word = "uc-preset" -> "uc_preset"
      [] word = "negative-prompt" -> "negative_prompt"
      [] word = "ref-type" -> "ref_type"
      [] word = "ref-fidelity" -> "ref_fidelity"
      [] word = "ref-strength" -> "ref_strength"
      [] word = "character-prompt" -> "character_prompt"
      [] word = "controlnet-strength" -> "controlnet_strength"
      [] word = "n-images" -> "n_images"
      [] word = "stream-dir" -> "stream_dir"
      [] word = "request-json" -> "request_json"
      [] word = "no-such" -> "no_such"
      [] OTHER -> word

\* " ".join(words)
RECURSIVE JoinWords(_)
JoinWords(words) ==
    IF words = <<>> THEN ""
    ELSE IF Len(words) = 1 THEN words[1]
    ELSE words[1] \o " " \o JoinWords(Tail(words))

Cast(ok, val) == [ok |-> ok, val |-> val]
Raises == Cast(FALSE, PyNone)

\* int(value)
IntLiterals == {"0", "1", "4", "9", "30", "42", "999"}
IntOf(word) ==
    CASE word = "0" -> 0 [] word = "1" -> 1 [] word = "4" -> 4 [] word = "9" -> 9
      [] word = "30" -> 30 [] word = "42" -> 42 [] word = "999" -> 999
int(value) == IF value \in IntLiterals THEN Cast(TRUE, PInt(IntOf(value))) ELSE Raises

\* float(value)
FloatLiterals == {"-0.1", "0.005", "0.1", "0.5", "0.8", "0.9", "1.0", "1.5", "6.0", "10.5"}
MilliOf(word) ==
    CASE word = "-0.1" -> -100 [] word = "0.005" -> 5 [] word = "0.1" -> 100
      [] word = "0.5" -> 500 [] word = "0.8" -> 800 [] word = "0.9" -> 900
      [] word = "1.0" -> 1000 [] word = "1.5" -> 1500 [] word = "6.0" -> 6000
      [] word = "10.5" -> 10500
float(value) ==
    IF value \in FloatLiterals THEN Cast(TRUE, PFloat(MilliOf(value)))
    ELSE IF value \in IntLiterals THEN Cast(TRUE, PFloat(1000 * IntOf(value)))
    ELSE IF Lower(value) = "nan" THEN Cast(TRUE, PNaN)
    ELSE Raises

\* Mutant: the words "none" and "null" are read as the absent value.
str_none_words(value) ==
    IF value \in {"none", "null", "None"} THEN Cast(TRUE, PyNone) ELSE Cast(TRUE, PStr(value))

\* str(value)
str(value) == Cast(TRUE, PStr(value))

\* parse_bool_value
parse_bool_value(value) ==
    LET normalized == Lower(value)
    IN  IF normalized \in {"1", "true", "yes", "y", "on"} THEN Cast(TRUE, PBool(TRUE))
        ELSE IF normalized \in {"0", "false", "no", "n", "off"} THEN Cast(TRUE, PBool(FALSE))
        ELSE Raises

\* parse_seed_value
parse_seed_value(value) ==
    LET normalized == Lower(value)
    IN  IF normalized \in {"none", "null", "random"} THEN Cast(TRUE, PyNone)
        ELSE int(value)

\* Path(text)
PathOf(text) ==
    CASE text = "out.png" -> <<Name("out", ".png")>>
      [] text = "dir/out.png" -> <<Name("dir", ""), Name("out", ".png")>>
      [] OTHER -> <<Name(text, "")>>

\* parse_size: a preset name, a (width, height) pair, or sys.exit(1)
SizeWithX == {"832x1216", "12xab", "1x2x3"}
parse_size(size_str) ==
    IF size_str \in SizeWithX
    THEN (IF size_str = "832x1216" THEN [ok |-> TRUE, size |-> <<832, 1216>>]
                                   ELSE [ok |-> FALSE, size |-> <<>>])
    ELSE [ok |-> TRUE, size |-> <<size_str>>]

(***************************************************************************)
(* State.                                                                  *)
(***************************************************************************)
VARIABLES
    \* the two pure functions under test
    fn_stage,     \* "idle", "input", "once", "twice", "normalized"
    fn_payload,   \* the payload as drawn
    fn_force,     \* the force_stream argument
    fn_first,     \* outcome of the first call
    fn_second,    \* outcome of the second call (the first call's result as input)
    \* one run of the program
    mode,         \* "request_json" or "interactive" ("" when no run is modelled)
    pc,           \* where the run is
    args,         \* the argparse namespace (interactive: the loop's working copy)
    nlines,       \* interactive: lines read so far
    pending,      \* interactive: the /set being applied, between setattr and validation
    raw,          \* the request document as loaded (the object passed to the sanitizer)
    payload,      \* generate_from_request_json's payload variable
    low,          \* is_low_level
    is_stream,    \* is_stream (low level) or args.stream (high level)
    schema,       \* the model the request was validated against, "" before
    verdict,      \* "" before validation, then "accepted" or "refused"
    request,      \* the validated request
    calls,        \* the transport calls made, in order
    images,       \* the images a single-response call returned
    yielded,      \* the chunk images the current stream has yielded and the loop saved
    chunk_count,  \* _save_stream_chunks: chunk_count
    total_bytes,  \* _save_stream_chunks: total_bytes
    dirs,         \* directories created
    files,        \* files written: path -> bytes
    console,      \* messages printed, in order
    exit_code,    \* -1 while running, then the process's exit status
    closed,       \* how many times main has closed the client
    \* one pass through the body of the interactive loop
    session,      \* the session record when the line is read
    line,         \* the line read
    handled       \* what handling the line did (NoHandled before)

fn_vars == <<fn_stage, fn_payload, fn_force, fn_first, fn_second>>
req_vars == <<raw, payload, low, is_stream, schema, verdict, request>>
io_vars == <<calls, images, yielded, chunk_count, total_bytes, dirs, files, console, exit_code,
            closed>>
loop_vars == <<nlines, pending>>
run_vars == <<mode, pc, args, loop_vars, req_vars, io_vars>>

line_vars == <<session, line, handled>>

vars == <<fn_vars, run_vars, line_vars>>

FnIdle ==
    /\ fn_stage = "idle"
    /\ fn_payload = <<>>
    /\ fn_force = FALSE
    /\ fn_first = NoOutcome
    /\ fn_second = NoOutcome

\* before is the namespace as it was when the line was read (kept for the
\* properties; the code holds only old_value)
NoPending == [key |-> "", attr |-> "", old_value |-> PyNone, new_value |-> PyNone,
              value |-> "", before |-> <<>>]

NoHandled == [done |-> FALSE, args |-> <<>>, active |-> TRUE, generation |-> "none",
              msgs |-> <<>>]

LineIdle ==
    /\ session = <<>>
    /\ line = <<>>
    /\ handled = NoHandled

LoopIdle ==
    /\ nlines = 0
    /\ pending = NoPending

ReqIdle ==
    /\ raw = <<>>
    /\ payload = <<>>
    /\ low = FALSE
    /\ is_stream = FALSE
    /\ schema = ""
    /\ verdict = ""
    /\ request = <<>>

IoIdle ==
    /\ calls = <<>>
    /\ images = <<>>
    /\ yielded = <<>>
    /\ chunk_count = 0
    /\ total_bytes = 0
    /\ dirs = {}
    /\ files = NoFiles
    /\ console = <<>>
    /\ exit_code = -1
    /\ closed = 0

RunIdle ==
    /\ mode = ""
    /\ pc = "idle"
    /\ args = Defaults
    /\ LoopIdle
    /\ ReqIdle
    /\ IoIdle

(***************************************************************************)
(* SpecSanitize: _sanitize_low_level_payload on every payload, then on its *)
(* own result.                                                             *)
(***************************************************************************)
InitSanitize ==
    /\ RunIdle
    /\ LineIdle
    /\ fn_stage = "input"
    /\ fn_payload \in Payloads
    /\ fn_force = FALSE
    /\ fn_first = NoOutcome
    /\ fn_second = NoOutcome

SanitizeOnce ==
    /\ fn_stage = "input"
    /\ fn_first' = _sanitize_low_level_payload(fn_payload)
    /\ fn_stage' = "once"
    /\ UNCHANGED <<fn_payload, fn_force, fn_second, run_vars, line_vars>>

SanitizeTwice ==
    /\ fn_stage = "once"
    /\ ~fn_first.raised
    /\ fn_second' = _sanitize_low_level_payload(fn_first.ret)
    /\ fn_stage' = "twice"
    /\ UNCHANGED <<fn_payload, fn_force, fn_first, run_vars, line_vars>>

NextSanitize == SanitizeOnce \/ SanitizeTwice

SpecSanitize == InitSanitize /\ [][NextSanitize]_vars

(***************************************************************************)
(* SpecNormalize: _normalize_low_level_stream_mode on every payload, with  *)
(* and without force_stream.                                               *)
(***************************************************************************)
InitNormalize ==
    /\ RunIdle
    /\ LineIdle
    /\ fn_stage = "input"
    /\ fn_payload \in Payloads
    /\ fn_force \in BOOLEAN
    /\ fn_first = NoOutcome
    /\ fn_second = NoOutcome

NormalizeOnce ==
    /\ fn_stage = "input"
    /\ fn_first' = _normalize_low_level_stream_mode(fn_payload, fn_force)
    /\ fn_stage' = "normalized"
    /\ UNCHANGED <<fn_payload, fn_force, fn_second, run_vars, line_vars>>

NextNormalize == NormalizeOnce

SpecNormalize == InitNormalize /\ [][NextNormalize]_vars

(***************************************************************************)
(* Persistence: _save_images and _save_stream_chunks.                      *)
(***************************************************************************)
ImageName(i) == Name("image_" \o Format04d(i), ".png")
ChunkName(i) == Name("chunk_" \o Format04d(i), ".png")

\* Mutant: an empty batch is reported and saved as one blank image.
_save_images_blank_for_empty(imgs, output) ==
    IF Len(imgs) = 1
    THEN LET output_path == IF PathSuffix(output) = ""
                            THEN PathJoin(output, Name("image", ".png"))
                            ELSE output
         IN  [mkdir |-> PathParent(output_path),
              writes |-> <<[path |-> output_path, data |-> imgs[1]]>>,
              msgs |-> <<success("Saved", 1)>>]
    ELSE LET output_path == IF PathSuffix(output) # ""
                            THEN PathParent(output)
                            ELSE output
             batch == IF imgs = <<>> THEN <<<<>>>> ELSE imgs
         IN  [mkdir |-> output_path,
              writes |-> [i \in 1..Len(batch) |->
                            [path |-> PathJoin(output_path, ImageName(i)),
                             data |-> batch[i]]],
              msgs |-> [i \in 1..Len(batch) |-> success("Saved", i)]]

\* Mutant: a single image is written to the output path as it is given.
_save_images_no_default_name(imgs, output) ==
    IF Len(imgs) = 1
    THEN [mkdir |-> PathParent(output),
          writes |-> <<[path |-> output, data |-> imgs[1]]>>,
          msgs |-> <<success("Saved", 1)>>]
    ELSE LET output_path == IF PathSuffix(output) # ""
                            THEN PathParent(output)
                            ELSE output
         IN  [mkdir |-> output_path,
              writes |-> [i \in 1..Len(imgs) |->
                            [path |-> PathJoin(output_path, ImageName(i)),
                             data |-> imgs[i]]],
              msgs |-> [i \in 1..Len(imgs) |-> success("Saved", i)]]

\* _save_images: the directory created, the files written and the messages
\* printed for a list of images and an output path
_save_images(imgs, output) ==
    IF Len(imgs) = 1
    THEN LET output_path == IF PathSuffix(output) = ""
                            THEN PathJoin(output, Name("image", ".png"))
                            ELSE output
         IN  [mkdir |-> PathParent(output_path),
              writes |-> <<[path |-> output_path, data |-> imgs[1]]>>,
              msgs |-> <<success("Saved", 1)>>]
    ELSE LET output_path == IF PathSuffix(output) # ""
                            THEN PathParent(output)
                            ELSE output
         IN  [mkdir |-> output_path,
              writes |-> [i \in 1..Len(imgs) |->
                            [path |-> PathJoin(output_path, ImageName(i)),
                             data |-> imgs[i]]],
              msgs |-> [i \in 1..Len(imgs) |-> success("Saved", i)]]

RECURSIVE WriteAll(_, _)
WriteAll(fs, writes) ==
    IF writes = <<>> THEN fs
    ELSE WriteAll(WriteFile(fs, Head(writes).path, Head(writes).data), Tail(writes))

\* Mutant: the file is named before the counter is incremented.
SaveChunk_zero_based(count, total, output_dir, image) ==
    LET decoded_image == b64decode(image)
    IN  [chunk_count |-> count + 1,
         total_bytes |-> total + Len(decoded_image),
         path |-> PathJoin(output_dir, ChunkName(count)),
         data |-> decoded_image,
         msg |-> info("Received chunk", count + 1)]

\* _save_stream_chunks, the body of its loop for one chunk: the new
\* counters, the file written and the message printed
SaveChunk(count, total, output_dir, image) ==
    LET decoded_image == b64decode(image)
        new_total == total + Len(decoded_image)
        new_count == count + 1
    IN  [chunk_count |-> new_count,
         total_bytes |-> new_total,
         path |-> PathJoin(output_dir, ChunkName(new_count)),
         data |-> decoded_image,
         msg |-> info("Received chunk", new_count)]

(***************************************************************************)
(* Schema validation (pydantic model_validate): the verdicts possible for  *)
(* a payload.  steps outside [1, 50] in the parameters block is always     *)
(* refused, by the low-level and by the high-level schemas; any payload    *)
(* may be refused for fields not modelled.                                 *)
(***************************************************************************)
LowLevelSchemas == {"StreamImageGenerationRequest", "ImageGenerationRequest"}
HighLevelSchemas == {"GenerateImageStreamParams", "GenerateImageParams"}

model_validate(model, doc) ==
    LET parameters == _as_object_dict(DictGet(doc, "parameters"))
        steps == DictGet(parameters.m, "steps")
    IN  IF /\ steps.kind = "num"
           /\ ~(1 <= steps.n /\ steps.n <= 50)
        THEN {FALSE}
        ELSE BOOLEAN

(***************************************************************************)
(* Steps shared by generate_from_request_json, generate_standard and       *)
(* generate_streaming: validation, dispatch, persistence.                  *)
(***************************************************************************)
\* the RuntimeError of _save_stream_chunks, lines 77-80
NoChunksText == "No stream chunks were received"

\* the message of the except clause that catches a failed dispatch
ErrorMessage ==
    IF mode = "request_json" THEN "Error during request-json generation"
    ELSE IF is_stream THEN "Error during streaming"
    ELSE "Error during generation"

\* Mutant: the process ends without running main's finally clause.
LeaveMain_without_finally(status) ==
    /\ exit_code' = status
    /\ UNCHANGED closed

\* app.py lines 35-49: whatever leaves the try block (a return, SystemExit,
\* any other exception) runs client.close() on its way out of main
LeaveMain(status) ==
    /\ exit_code' = status
    /\ closed' = closed + 1

\* fail(...) then sys.exit(1): SystemExit is caught nowhere, so the process
\* ends, whatever the mode
ExitWith(message, detail) ==
    /\ console' = Append(console, fail(message, detail))
    /\ LeaveMain(1)
    /\ pc' = "exited"

\* the function returns: the process ends with status 0 in the one-shot
\* modes, the interactive loop reads its next line
Return ==
    IF mode = "interactive"
    THEN pc' = "prompt" /\ UNCHANGED <<exit_code, closed>>
    ELSE pc' = "exited" /\ LeaveMain(0)

SchemaFor(lowLevel, stream) ==
    IF lowLevel
    THEN (IF stream THEN "StreamImageGenerationRequest" ELSE "ImageGenerationRequest")
    ELSE (IF stream THEN "GenerateImageStreamParams" ELSE "GenerateImageParams")

ApiFor(lowLevel, stream) ==
    IF lowLevel
    THEN (IF stream THEN "api_client.image.generate_stream" ELSE "api_client.image.generate")
    ELSE (IF stream THEN "image.generate_stream" ELSE "image.generate")

\* generation.py lines 182-203: the request document is validated; lines
\* 282-297, 311-333: the parameters are built from keyword arguments, with
\* no parameters block
ValidatedDocument == IF mode = "request_json" THEN payload ELSE <<>>

\* Mutant: the verdict of the validation is not acted upon.
ValidateUnchecked ==
    /\ pc = "prepared"
    /\ schema' = SchemaFor(low, is_stream)
    /\ \E ok \in model_validate(SchemaFor(low, is_stream), ValidatedDocument) :
         verdict' = IF ok THEN "accepted" ELSE "refused"
    /\ request' = payload
    /\ pc' = "validated"
    /\ UNCHANGED <<fn_vars, line_vars, mode, args, loop_vars, raw, payload, low, is_stream,
                   calls, images, yielded, chunk_count, total_bytes, dirs, files,
                   console, exit_code, closed>>

\* generation.py lines 182, 187, 197, 203 (refusal caught at 207-209) and
\* lines 300, 336 (refusal not caught: the process ends on the exception)
Validate ==
    /\ pc = "prepared"
    /\ schema' = SchemaFor(low, is_stream)
    /\ \E ok \in model_validate(SchemaFor(low, is_stream), ValidatedDocument) :
         IF ok
         THEN /\ request' = payload
              /\ verdict' = "accepted"
              /\ pc' = "validated"
              /\ UNCHANGED <<console, exit_code, closed>>
         ELSE /\ verdict' = "refused"
              /\ IF mode = "request_json"
                 THEN ExitWith("Error: Request JSON validation failed", "ValidationError")
                 ELSE LeaveMain(1) /\ pc' = "exited" /\ UNCHANGED console
              /\ UNCHANGED request
    /\ UNCHANGED <<fn_vars, line_vars, mode, args, loop_vars, raw, payload, low, is_stream,
                   calls, images, yielded, chunk_count, total_bytes, dirs, files>>

Call(api) == [api |-> api, request |-> request]

\* lines 183, 198, 303: the call returns the lazy chunk sequence
GenerateStream ==
    /\ pc = "validated"
    /\ is_stream
    /\ calls' = Append(calls, Call(ApiFor(low, TRUE)))
    /\ pc' = "stream_open"
    /\ UNCHANGED <<fn_vars, line_vars, mode, args, loop_vars, req_vars,
                   images, yielded, chunk_count, total_bytes, dirs, files, console, exit_code, closed>>

\* lines 188, 204, 366: the call returns a list of images
Generate ==
    /\ pc = "validated"
    /\ ~is_stream
    /\ \E n \in 0..MaxImages :
         images' = [i \in 1..n |-> ImageBytes(i)]
    /\ calls' = Append(calls, Call(ApiFor(low, FALSE)))
    /\ pc' = "received"
    /\ UNCHANGED <<fn_vars, line_vars, mode, args, loop_vars, req_vars,
                   yielded, chunk_count, total_bytes, dirs, files, console, exit_code, closed>>

\* the transport call raises: caught at lines 210-212, 304-306, 370-372
TransportError ==
    /\ pc = "validated"
    /\ calls' = Append(calls, Call(ApiFor(low, is_stream)))
    /\ ExitWith(ErrorMessage, "transport error")
    /\ UNCHANGED <<fn_vars, line_vars, mode, args, loop_vars, req_vars,
                   images, yielded, chunk_count, total_bytes, dirs, files>>

\* KeyboardInterrupt raised inside the blocking single-response call
\* (generation.py line 337): it is not an Exception, so the handler at lines
\* 370-372 lets it pass, interactive_loop (lines 296-300) has no handler
\* around the generation, and it leaves main through the finally clause:
\* the process ends on the signal (status 130), nothing is printed by the CLI
Interrupt ==
    /\ pc = "validated"
    /\ ~is_stream
    /\ calls' = Append(calls, Call(ApiFor(low, is_stream)))
    /\ pc' = "exited"
    /\ LeaveMain(130)
    /\ UNCHANGED <<fn_vars, line_vars, mode, args, loop_vars, req_vars,
                   images, yielded, chunk_count, total_bytes, dirs, files, console>>

\* lines 189-191, 205-206, 367-368
SaveImages ==
    /\ pc = "received"
    /\ LET saved == _save_images(images, PathOf(args.output.s))
       IN  /\ dirs' = dirs \cup MkdirParents(saved.mkdir)
           /\ files' = WriteAll(files, saved.writes)
           /\ console' = console \o saved.msgs \o
                           <<success("Successfully generated images", Len(images))>>
    /\ Return
    /\ UNCHANGED <<fn_vars, line_vars, mode, args, loop_vars, req_vars, calls, images,
                   yielded, chunk_count, total_bytes>>

\* _save_stream_chunks, lines 58-62
OpenStreamDir ==
    /\ pc = "stream_open"
    /\ dirs' = dirs \cup MkdirParents(PathOf(args.stream_dir.s))
    /\ total_bytes' = 0
    /\ chunk_count' = 0
    /\ yielded' = <<>>
    /\ pc' = "streaming"
    /\ UNCHANGED <<fn_vars, line_vars, mode, args, loop_vars, req_vars, calls, images, files,
                   console, exit_code, closed>>

\* _save_stream_chunks, lines 66-74: the sequence yields one more chunk
ReceiveChunk ==
    /\ pc = "streaming"
    /\ chunk_count < MaxChunks
    /\ \E image \in ChunkImages :
         LET saved == SaveChunk(chunk_count, total_bytes, PathOf(args.stream_dir.s), image)
         IN  /\ yielded' = Append(yielded, image)
             /\ chunk_count' = saved.chunk_count
             /\ total_bytes' = saved.total_bytes
             /\ files' = WriteFile(files, saved.path, saved.data)
             /\ console' = Append(console, saved.msg)
    /\ UNCHANGED <<fn_vars, line_vars, mode, pc, args, loop_vars, req_vars, calls, images, dirs,
                   exit_code, closed>>

\* _save_stream_chunks, lines 67-71: the chunk is decoded and counted, then
\* write_bytes raises and the file is not created
ChunkWriteError ==
    /\ pc = "streaming"
    /\ chunk_count < MaxChunks
    /\ \E image \in ChunkImages :
         LET saved == SaveChunk(chunk_count, total_bytes, PathOf(args.stream_dir.s), image)
         IN  /\ chunk_count' = saved.chunk_count
             /\ total_bytes' = saved.total_bytes
    /\ ExitWith(ErrorMessage, "write error")
    /\ UNCHANGED <<fn_vars, line_vars, mode, args, loop_vars, req_vars, calls, images,
                   yielded, dirs, files>>

\* Mutant: the empty sequence is not told apart.
StreamExhausted_always_success ==
    /\ pc = "streaming"
    /\ console' = console \o
           <<success("Streaming complete! Received bytes total", total_bytes),
             success("Saved chunks", chunk_count)>>
    /\ Return
    /\ UNCHANGED <<fn_vars, line_vars, mode, args, loop_vars, req_vars, calls, images,
                   yielded, chunk_count, total_bytes, dirs, files>>

\* _save_stream_chunks, lines 76-83: the sequence is exhausted
StreamExhausted ==
    /\ pc = "streaming"
    /\ IF chunk_count = 0
       THEN ExitWith(ErrorMessage, NoChunksText)
       ELSE /\ console' = console \o
                   <<success("Streaming complete! Received bytes total", total_bytes),
                     success("Saved chunks", chunk_count)>>
            /\ Return
    /\ UNCHANGED <<fn_vars, line_vars, mode, args, loop_vars, req_vars, calls, images,
                   yielded, chunk_count, total_bytes, dirs, files>>

\* Mutant: the chunks written so far are removed when the sequence raises.
StreamError_rolls_back ==
    /\ pc = "streaming"
    /\ ExitWith(ErrorMessage, "transport error")
    /\ files' = NoFiles
    /\ UNCHANGED <<fn_vars, line_vars, mode, args, loop_vars, req_vars, calls, images,
                   yielded, chunk_count, total_bytes, dirs>>

\* _save_stream_chunks, line 66: the sequence raises instead of yielding
StreamError ==
    /\ pc = "streaming"
    /\ ExitWith(ErrorMessage, "transport error")
    /\ UNCHANGED <<fn_vars, line_vars, mode, args, loop_vars, req_vars, calls, images,
                   yielded, chunk_count, total_bytes, dirs, files>>

Dispatch ==
    \/ Validate
    \/ GenerateStream
    \/ Generate
    \/ TransportError
    \/ SaveImages
    \/ OpenStreamDir
    \/ ReceiveChunk
    \/ ChunkWriteError
    \/ StreamExhausted
    \/ StreamError

(***************************************************************************)
(* Spec: generate_from_request_json on a loaded request document.          *)
(***************************************************************************)
\* the request documents of a run: the envelope's keys in one fixed order
\* (the order of the envelope decides nothing in the pipeline)
TopRank(k) ==
    CASE k = "prompt" -> 1 [] k = "model" -> 2 [] k = "input" -> 3 [] k = "action" -> 4
      [] k = "parameters" -> 5 [] OTHER -> 6
RequestDocs ==
    {doc \in Payloads :
        \A i \in 1..Len(doc) : \A j \in 1..Len(doc) :
            i < j => TopRank(doc[i][1]) < TopRank(doc[j][1])}

RequestJsonArgs ==
    {[Defaults EXCEPT !.request_json = PStr("request.json"),
                      !.stream = PBool(s), !.output = PStr(o)] :
        s \in BOOLEAN, o \in {"out", "out.png"}}

Init ==
    /\ FnIdle
    /\ LineIdle
    /\ LoopIdle
    /\ mode = "request_json"
    /\ pc = "loaded"
    /\ args \in RequestJsonArgs
    /\ raw \in RequestDocs
    /\ payload = raw
    /\ low = FALSE
    /\ is_stream = FALSE
    /\ schema = ""
    /\ verdict = ""
    /\ request = <<>>
    /\ IoIdle

\* lines 166-169
Classify ==
    /\ pc = "loaded"
    /\ low' = is_low_level(payload)
    /\ pc' = "classified"
    /\ UNCHANGED <<fn_vars, line_vars, mode, args, loop_vars, raw, payload, is_stream, schema,
                   verdict, request, io_vars>>

\* Mutant: only the caller's flag is handed to the normalizer.
PrepareLowLevel_flag_only ==
    /\ pc = "classified"
    /\ low
    /\ LET sanitized == _sanitize_low_level_payload(payload)
           parameters == _as_object_dict(DictGet(sanitized.ret, "parameters"))
           stream_in_payload == ~parameters.isNone /\ HasKey(parameters.m, "stream")
           stream == Truthy(args.stream) \/ stream_in_payload
           normalized == _normalize_low_level_stream_mode(sanitized.ret, Truthy(args.stream))
       IN  /\ raw' = sanitized.arg
           /\ IF sanitized.raised \/ normalized.raised
              THEN /\ ExitWith(ErrorMessage, "exception")
                   /\ UNCHANGED <<payload, is_stream>>
              ELSE /\ payload' = normalized.ret
                   /\ is_stream' = stream
                   /\ console' = console \o normalized.warns \o
                        <<info(IF stream
                               THEN "Starting streaming generation from low-level request JSON"
                               ELSE "Generating from low-level request JSON", 0)>>
                   /\ pc' = "prepared"
                   /\ UNCHANGED <<exit_code, closed>>
    /\ UNCHANGED <<fn_vars, line_vars, mode, args, loop_vars, low, schema, verdict, request,
                   calls, images, yielded, chunk_count, total_bytes, dirs, files>>

\* Mutant: the sanitized payload is dispatched as it is.
PrepareLowLevel_unnormalized ==
    /\ pc = "classified"
    /\ low
    /\ LET sanitized == _sanitize_low_level_payload(payload)
           parameters == _as_object_dict(DictGet(sanitized.ret, "parameters"))
           stream_in_payload == ~parameters.isNone /\ HasKey(parameters.m, "stream")
           stream == Truthy(args.stream) \/ stream_in_payload
           normalized == Outcome(sanitized.ret, sanitized.ret, FALSE, <<>>)
       IN  /\ raw' = sanitized.arg
           /\ IF sanitized.raised \/ normalized.raised
              THEN /\ ExitWith(ErrorMessage, "exception")
                   /\ UNCHANGED <<payload, is_stream>>
              ELSE /\ payload' = normalized.ret
                   /\ is_stream' = stream
                   /\ console' = console \o normalized.warns \o
                        <<info(IF stream
                               THEN "Starting streaming generation from low-level request JSON"
                               ELSE "Generating from low-level request JSON", 0)>>
                   /\ pc' = "prepared"
                   /\ UNCHANGED <<exit_code, closed>>
    /\ UNCHANGED <<fn_vars, line_vars, mode, args, loop_vars, low, schema, verdict, request,
                   calls, images, yielded, chunk_count, total_bytes, dirs, files>>

\* Mutant: a declared stream field counts only when its value is not null.
PrepareLowLevel_stream_by_value ==
    /\ pc = "classified"
    /\ low
    /\ LET sanitized == _sanitize_low_level_payload(payload)
           parameters == _as_object_dict(DictGet(sanitized.ret, "parameters"))
           stream_in_payload == /\ ~parameters.isNone
                                /\ HasKey(parameters.m, "stream")
                                /\ DictGet(parameters.m, "stream") # JNull
           stream == Truthy(args.stream) \/ stream_in_payload
           normalized == _normalize_low_level_stream_mode(sanitized.ret, stream)
       IN  /\ raw' = sanitized.arg
           /\ IF sanitized.raised \/ normalized.raised
              THEN /\ ExitWith(ErrorMessage, "exception")
                   /\ UNCHANGED <<payload, is_stream>>
              ELSE /\ payload' = normalized.ret
                   /\ is_stream' = stream
                   /\ console' = console \o normalized.warns \o
                        <<info(IF stream
                               THEN "Starting streaming generation from low-level request JSON"
                               ELSE "Generating from low-level request JSON", 0)>>
                   /\ pc' = "prepared"
                   /\ UNCHANGED <<exit_code, closed>>
    /\ UNCHANGED <<fn_vars, line_vars, mode, args, loop_vars, low, schema, verdict, request,
                   calls, images, yielded, chunk_count, total_bytes, dirs, files>>

\* lines 172-181 and 186
PrepareLowLevel ==
    /\ pc = "classified"
    /\ low
    /\ LET sanitized == _sanitize_low_level_payload(payload)
           parameters == _as_object_dict(DictGet(sanitized.ret, "parameters"))
           stream_in_payload == ~parameters.isNone /\ HasKey(parameters.m, "stream")
           stream == Truthy(args.stream) \/ stream_in_payload
           normalized == _normalize_low_level_stream_mode(sanitized.ret, stream)
       IN  /\ raw' = sanitized.arg
           /\ IF sanitized.raised \/ normalized.raised
              THEN /\ ExitWith(ErrorMessage, "exception")
                   /\ UNCHANGED <<payload, is_stream>>
              ELSE /\ payload' = normalized.ret
                   /\ is_stream' = stream
                   /\ console' = console \o normalized.warns \o
                        <<info(IF stream
                               THEN "Starting streaming generation from low-level request JSON"
                               ELSE "Generating from low-level request JSON", 0)>>
                   /\ pc' = "prepared"
                   /\ UNCHANGED <<exit_code, closed>>
    /\ UNCHANGED <<fn_vars, line_vars, mode, args, loop_vars, low, schema, verdict, request,
                   calls, images, yielded, chunk_count, total_bytes, dirs, files>>

\* lines 193-196 and 202
PrepareHighLevel ==
    /\ pc = "classified"
    /\ ~low
    /\ is_stream' = Truthy(args.stream)
    /\ console' = Append(console,
                    info(IF Truthy(args.stream)
                         THEN "Starting streaming generation from high-level params JSON"
                         ELSE "Generating from high-level params JSON", 0))
    /\ pc' = "prepared"
    /\ UNCHANGED <<fn_vars, line_vars, mode, args, loop_vars, raw, payload, low, schema, verdict, request,
                   calls, images, yielded, chunk_count, total_bytes, dirs, files, exit_code, closed>>

Next ==
    \/ Classify
    \/ PrepareLowLevel
    \/ PrepareHighLevel
    \/ Dispatch

Spec == Init /\ [][Next]_vars

(***************************************************************************)
(* cli/interactive.py: keys, setters, /set and /unset.                     *)
(***************************************************************************)
\* KEY_ALIASES.get(key, key)
KEY_ALIASES(key) ==
    CASE key = "m" -> "model"
      [] key = "res" -> "size"
      [] key = "resolution" -> "size"
      [] key = "st" -> "steps"
      [] key = "cfg" -> "scale"
      [] key = "sp" -> "sampler"
      [] OTHER -> key

\* Mutant: the key is looked up in the alias table as it was typed.
_normalize_set_key_as_typed(key) == KEY_ALIASES(key)

\* _normalize_set_key: key.strip().lower(), then the alias table
_normalize_set_key(key) == KEY_ALIASES(Lower(key))

\* _interactive_setters: the keys, the attribute each sets and its cast
SetterKeys ==
    {"model", "size", "steps", "scale", "sampler", "seed", "quality", "uc-preset",
     "negative-prompt", "reference", "ref-type", "ref-fidelity", "ref-strength",
     "character-prompt", "controlnet", "controlnet-strength", "image", "strength",
     "n-images", "noise", "output", "stream", "stream-dir"}
SetterAttr(key) ==
    CASE key = "uc-preset" -> "uc_preset"
      [] key = "negative-prompt" -> "negative_prompt"
      [] key = "ref-type" -> "ref_type"
      [] key = "ref-fidelity" -> "ref_fidelity"
      [] key = "ref-strength" -> "ref_strength"
      [] key = "character-prompt" -> "character_prompt"
      [] key = "controlnet-strength" -> "controlnet_strength"
      [] key = "n-images" -> "n_images"
      [] key = "stream-dir" -> "stream_dir"
      [] OTHER -> key
SetterCast(key, value) ==
    CASE key \in {"steps", "n-images"} -> int(value)
      [] key \in {"scale", "ref-fidelity", "ref-strength", "controlnet-strength",
                  "strength", "noise"} -> float(value)
      [] key = "seed" -> parse_seed_value(value)
      [] key \in {"quality", "stream"} -> parse_bool_value(value)
      [] OTHER -> str(value)

\* Mutant: every field is cleared, none goes back to its default.
_normalize_unset_value_always_none(key, defaults) == PyNone

\* _normalize_unset_value
_normalize_unset_value(key, defaults) ==
    IF key \in {"seed", "negative_prompt", "reference", "character_prompt",
                "controlnet", "image"}
    THEN PyNone
    ELSE defaults[key]

\* Mutant: a value that cannot be cast clears the attribute.
SetBegin_clears_on_bad_value(ns, key, value) ==
    IF key \notin SetterKeys
    THEN [status |-> "unknown_key", ns |-> ns, pending |-> NoPending,
          msgs |-> <<warn("Unknown key", PStr(key)), info("Available keys", 0)>>]
    ELSE LET attr == SetterAttr(key)
             cast == SetterCast(key, value)
         IN  IF ~cast.ok
             THEN [status |-> "bad_value", ns |-> [ns EXCEPT ![attr] = PyNone],
                   pending |-> NoPending,
                   msgs |-> <<warn("Invalid value", PStr(key))>>]
             ELSE [status |-> "applied",
                   ns |-> [ns EXCEPT ![attr] = cast.val],
                   pending |-> [key |-> key, attr |-> attr, old_value |-> ns[attr],
                                new_value |-> cast.val, value |-> value, before |-> ns],
                   msgs |-> <<>>]

\* _apply_interactive_set, lines 157-172: the key is looked up, the value
\* cast and the attribute set
SetBegin(ns, key, value) ==
    IF key \notin SetterKeys
    THEN [status |-> "unknown_key", ns |-> ns, pending |-> NoPending,
          msgs |-> <<warn("Unknown key", PStr(key)), info("Available keys", 0)>>]
    ELSE LET attr == SetterAttr(key)
             cast == SetterCast(key, value)
         IN  IF ~cast.ok
             THEN [status |-> "bad_value", ns |-> ns, pending |-> NoPending,
                   msgs |-> <<warn("Invalid value", PStr(key))>>]
             ELSE [status |-> "applied",
                   ns |-> [ns EXCEPT ![attr] = cast.val],
                   pending |-> [key |-> key, attr |-> attr, old_value |-> ns[attr],
                                new_value |-> cast.val, value |-> value, before |-> ns],
                   msgs |-> <<>>]

\* the enum check of lines 180-195 for one key
EnumRejects(ns, key) ==
    \/ key = "model" /\ ns.model.s \notin MODEL_CHOICES
    \/ key = "sampler" /\ ns.sampler.s \notin SAMPLER_CHOICES
    \/ key = "uc-preset" /\ ns.uc_preset.s \notin UC_PRESET_CHOICES
    \/ key = "ref-type" /\ ns.ref_type.s \notin REF_TYPE_CHOICES

\* lines 199-207
ResetSiblings(ns, key, new_value, defaults) ==
    LET a == IF key = "reference" /\ new_value = PyNone
             THEN [ns EXCEPT !.ref_type = defaults.ref_type,
                             !.ref_fidelity = defaults.ref_fidelity,
                             !.ref_strength = defaults.ref_strength]
             ELSE ns
        b == IF key = "controlnet" /\ new_value = PyNone
             THEN [a EXCEPT !.controlnet_strength = defaults.controlnet_strength]
             ELSE a
    IN  IF key = "image" /\ new_value = PyNone
        THEN [b EXCEPT !.strength = defaults.strength, !.noise = defaults.noise]
        ELSE b

\* Mutant: a value outside the choice list is reported but not rolled back.
SetFinish_keeps_bad_choice(ns, p, defaults) ==
    IF ~validate_args(ns)
    THEN [accepted |-> FALSE, ns |-> [ns EXCEPT ![p.attr] = p.old_value],
          msgs |-> <<warn("Rejected value", PStr(p.value))>>]
    ELSE IF EnumRejects(ns, p.key)
    THEN [accepted |-> FALSE, ns |-> ns,
          msgs |-> <<warn("Invalid choice", PStr(p.key))>>]
    ELSE [accepted |-> TRUE, ns |-> ResetSiblings(ns, p.key, p.new_value, defaults),
          msgs |-> <<success("Updated", 0)>>]

\* Mutant: a size that parse_size rejects is rolled back like a value out
\* of range.
SetFinish_checks_size(ns, p, defaults) ==
    IF ~validate_args(ns) \/ (p.key = "size" /\ ~parse_size(ns.size.s).ok)
    THEN [accepted |-> FALSE, ns |-> [ns EXCEPT ![p.attr] = p.old_value],
          msgs |-> <<warn("Rejected value", PStr(p.value))>>]
    ELSE IF EnumRejects(ns, p.key)
    THEN [accepted |-> FALSE, ns |-> [ns EXCEPT ![p.attr] = p.old_value],
          msgs |-> <<warn("Invalid choice", PStr(p.key))>>]
    ELSE [accepted |-> TRUE, ns |-> ResetSiblings(ns, p.key, p.new_value, defaults),
          msgs |-> <<success("Updated", 0)>>]

\* _apply_interactive_set, lines 173-207: validation, rollback or commit
SetFinish(ns, p, defaults) ==
    IF ~validate_args(ns)
    THEN [accepted |-> FALSE, ns |-> [ns EXCEPT ![p.attr] = p.old_value],
          msgs |-> <<warn("Rejected value", PStr(p.value))>>]
    ELSE IF EnumRejects(ns, p.key)
    THEN [accepted |-> FALSE, ns |-> [ns EXCEPT ![p.attr] = p.old_value],
          msgs |-> <<warn("Invalid choice", PStr(p.key))>>]
    ELSE [accepted |-> TRUE, ns |-> ResetSiblings(ns, p.key, p.new_value, defaults),
          msgs |-> <<success("Updated", 0)>>]

\* _apply_interactive_set from call to return
_apply_interactive_set(ns, defaults, key, value) ==
    LET begun == SetBegin(ns, key, value)
    IN  IF begun.status = "applied"
        THEN SetFinish(begun.ns, begun.pending, defaults)
        ELSE [accepted |-> FALSE, ns |-> begun.ns, msgs |-> begun.msgs]

(***************************************************************************)
(* Lines of input.  A line is the text Prompt.ask returns (stripped), held *)
(* as its leading slashes and its shell words, or an interrupt, or the end *)
(* of input.  The first token of a command line is its slashes followed by *)
(* its first word.                                                         *)
(***************************************************************************)
Line(kind, slashes, words, quote_error) ==
    [kind |-> kind, slashes |-> slashes, words |-> words, quote_error |-> quote_error]
Cmd(words) == Line("text", 1, words, FALSE)
PromptLine(words) == Line("text", 0, words, FALSE)
EmptyLine == Line("text", 0, <<>>, FALSE)
BadQuoteLine == Line("text", 1, <<"set", "negative-prompt", "bad">>, TRUE)
InterruptLine == Line("interrupt", 0, <<>>, FALSE)
EofLine == Line("eof", 0, <<>>, FALSE)

\* interactive_loop, lines 238-296: what one line asks for
\*   "none"  nothing changes          "exit"   leave the loop
\*   "set"   _apply_interactive_set   "unset"  setattr to the default
\*   "generate" set the prompt and generate
Decode(ns, ln) ==
    LET words == ln.words
        command == Lower(words[1])
        command_key == _normalize_set_key(command)
        none(msgs) == [op |-> "none", key |-> "", value |-> "", msgs |-> msgs]
    IN  IF ln.kind = "interrupt" THEN none(<<warn("Use /quit to exit interactive mode.", PyNone)>>)
        ELSE IF ln.kind = "eof" THEN [op |-> "exit", key |-> "", value |-> "", msgs |-> <<info("", 0)>>]
        ELSE IF ln.slashes = 0 /\ words = <<>> THEN none(<<>>)
        ELSE IF ln.slashes = 0
        THEN [op |-> "generate", key |-> "", value |-> JoinWords(words), msgs |-> <<>>]
        ELSE IF ln.quote_error THEN none(<<warn("Parse error", PyNone)>>)
        ELSE IF ln.slashes = 1 /\ command \in {"quit", "exit"}
        THEN [op |-> "exit", key |-> "", value |-> "", msgs |-> <<>>]
        ELSE IF ln.slashes = 1 /\ command = "help" THEN none(<<info("Help", 0)>>)
        ELSE IF ln.slashes = 1 /\ command = "show" THEN none(<<info("Current settings", 0)>>)
        ELSE IF ln.slashes = 1 /\ command = "set"
        THEN (IF Len(words) < 3
              THEN none(<<warn("Usage: /set <key> <value>", PyNone)>>)
              ELSE [op |-> "set", key |-> _normalize_set_key(words[2]),
                    value |-> JoinWords(SubSeq(words, 3, Len(words))), msgs |-> <<>>])
        ELSE IF command_key \in {"model", "size", "steps", "scale", "sampler"}
        THEN (IF Len(words) = 1
              THEN none(<<info("current value", 0)>>)
              ELSE [op |-> "set", key |-> command_key,
                    value |-> JoinWords(Tail(words)), msgs |-> <<>>])
        ELSE IF ln.slashes = 1 /\ command = "unset"
        THEN (IF Len(words) # 2
              THEN none(<<warn("Usage: /unset <key>", PyNone)>>)
              ELSE LET key == ReplaceDash(_normalize_set_key(words[2]))
                   IN  IF key \notin DOMAIN ns
                       THEN none(<<warn("Unknown key", PStr(words[2]))>>)
                       ELSE [op |-> "unset", key |-> key, value |-> "",
                             msgs |-> <<success("Reset", 0)>>])
        ELSE none(<<warn("Unknown command", PyNone)>>)

(***************************************************************************)
(* SpecInteractive: interactive_loop, one line at a time.  console holds   *)
(* what was printed since the last line was read.                          *)
(***************************************************************************)
\* the values tried for each setter key
SetValues(key) ==
    CASE key = "model" -> {"nai-diffusion-3", "foo"}
      [] key = "size" -> {"landscape", "832x1216", "12xab"}
      [] key = "steps" -> {"30", "999", "0", "abc"}
      [] key = "scale" -> {"6.0", "10.5", "nan"}
      [] key = "sampler" -> {"k_euler", "bad"}
      [] key = "seed" -> {"42", "None", "abc"}
      [] key = "quality" -> {"no", "maybe"}
      [] key = "uc-preset" -> {"heavy", "bad"}
      [] key = "negative-prompt" -> {"blurry", "none"}
      [] key = "reference" -> {"ref.png", "none"}
      [] key = "ref-type" -> {"style", "bad"}
      [] key = "ref-fidelity" -> {"0.8", "1.5"}
      [] key = "ref-strength" -> {"0.9", "-0.1"}
      [] key = "character-prompt" -> {"girl"}
      [] key = "controlnet" -> {"edge.png", "null"}
      [] key = "controlnet-strength" -> {"0.8", "0.005"}
      [] key = "image" -> {"base.png", "none"}
      [] key = "strength" -> {"0.5", "1.0"}
      [] key = "n-images" -> {"4", "9"}
      [] key = "noise" -> {"0.1", "1.0"}
      [] key = "output" -> {"out.png"}
      [] key = "stream" -> {"TRUE", "Off", "maybe"}
      [] key = "stream-dir" -> {"chunks"}

UnsetWords ==
    SetterKeys \cup {"prompt", "interactive", "st", "uc_preset", "no-such"}

Lines ==
    {EmptyLine, BadQuoteLine, InterruptLine, EofLine,
     PromptLine(<<"cat">>), PromptLine(<<"1girl,", "maid">>)}
    \cup {Cmd(<<w>>) : w \in {"quit", "EXIT", "help", "show", "bogus", "", "set",
                               "unset", "m", "res", "st", "cfg", "sp"}}
    \cup {Line("text", 2, <<"quit">>, FALSE), Line("text", 2, <<"st", "30">>, FALSE)}
    \cup {Cmd(<<"set", "steps">>), Cmd(<<"unset", "steps", "now">>),
          Cmd(<<"SET", "ST", "30">>), Cmd(<<"set", "cfg", "6.0">>),
          Cmd(<<"set", "no-such", "1">>), Cmd(<<"set", "uc_preset", "heavy">>),
          Cmd(<<"set", "negative-prompt", "bad", "hands">>)}
    \cup UNION {{Cmd(<<"set", k, v>>) : v \in SetValues(k)} : k \in SetterKeys}
    \cup {Cmd(<<"st", v>>) : v \in SetValues("steps")}
    \cup {Cmd(<<"m", v>>) : v \in SetValues("model")}
    \cup {Cmd(<<"res", v>>) : v \in SetValues("size")}
    \cup {Cmd(<<"cfg", v>>) : v \in SetValues("scale")}
    \cup {Cmd(<<"sp", v>>) : v \in SetValues("sampler")}
    \cup {Cmd(<<"unset", w>>) : w \in UnsetWords}

\* the lines a session run reads: one line of Lines for each distinct request
\* (what Decode returns depends on the record only through its field names),
\* so that two spellings of one request are not explored twice
LoopLines ==
    {CHOOSE ln \in Lines : Decode(Defaults, ln) = d : d \in {Decode(Defaults, ln) : ln \in Lines}}

\* the namespaces a session starts from: parse_args has validated them
BaseSessions ==
    {[Defaults EXCEPT !.interactive = PBool(TRUE)],
     [Defaults EXCEPT !.interactive = PBool(TRUE), !.steps = PInt(50),
                      !.scale = PFloat(0), !.seed = PInt(42), !.n_images = PInt(8),
                      !.stream = PBool(TRUE), !.model = PStr("nai-diffusion-3")],
     [Defaults EXCEPT !.interactive = PBool(TRUE), !.steps = PInt(1),
                      !.reference = PStr("ref.png"), !.ref_type = PStr("style"),
                      !.ref_fidelity = PFloat(800), !.ref_strength = PFloat(0),
                      !.controlnet = PStr("edge.png"), !.controlnet_strength = PFloat(10),
                      !.image = PStr("base.png"), !.strength = PFloat(990),
                      !.noise = PFloat(990), !.negative_prompt = PStr("blurry")]}

InitInteractive ==
    /\ FnIdle
    /\ LineIdle
    /\ mode = "interactive"
    /\ pc = "prompt"
    /\ args \in BaseSessions
    /\ LoopIdle
    /\ ReqIdle
    /\ IoIdle

\* a line is read (line 230)
Reading ==
    /\ mode = "interactive"
    /\ pc = "prompt"
    /\ nlines < MaxLines
    /\ nlines' = nlines + 1

\* lines 231-233, 238-239, 242-246, 254-262, 265-267, 274-276, 282-288, 293-294
ReadNothing ==
    /\ Reading
    /\ \E ln \in LoopLines :
         LET d == Decode(args, ln)
         IN  /\ d.op = "none"
             /\ console' = d.msgs
    /\ UNCHANGED <<fn_vars, line_vars, mode, pc, args, pending, req_vars,
                   calls, images, yielded, chunk_count, total_bytes, dirs, files, exit_code, closed>>

\* lines 234-236 and 251-252: the loop ends and main returns
ReadExit ==
    /\ Reading
    /\ \E ln \in LoopLines :
         LET d == Decode(args, ln)
         IN  /\ d.op = "exit"
             /\ console' = d.msgs
    /\ pc' = "exited"
    /\ LeaveMain(0)
    /\ UNCHANGED <<fn_vars, line_vars, mode, args, pending, req_vars,
                   calls, images, yielded, chunk_count, total_bytes, dirs, files>>

\* lines 281-291
ReadUnset ==
    /\ Reading
    /\ \E ln \in LoopLines :
         LET d == Decode(args, ln)
         IN  /\ d.op = "unset"
             /\ args' = [args EXCEPT ![d.key] = _normalize_unset_value(d.key, Defaults)]
             /\ console' = d.msgs
    /\ UNCHANGED <<fn_vars, line_vars, mode, pc, pending, req_vars,
                   calls, images, yielded, chunk_count, total_bytes, dirs, files, exit_code, closed>>

\* lines 264-279 with _apply_interactive_set up to its setattr (line 172)
ReadSet ==
    /\ Reading
    /\ \E ln \in LoopLines :
         LET d == Decode(args, ln)
             begun == SetBegin(args, d.key, d.value)
         IN  /\ d.op = "set"
             /\ args' = begun.ns
             /\ pending' = begun.pending
             /\ console' = begun.msgs
             /\ pc' = IF begun.status = "applied" THEN "set_applied" ELSE "prompt"
    /\ UNCHANGED <<fn_vars, line_vars, mode, req_vars,
                   calls, images, yielded, chunk_count, total_bytes, dirs, files, exit_code, closed>>

\* _apply_interactive_set, lines 173-207
FinishSet ==
    /\ pc = "set_applied"
    /\ LET done == SetFinish(args, pending, Defaults)
       IN  /\ args' = done.ns
           /\ console' = done.msgs
    /\ pending' = NoPending
    /\ pc' = "prompt"
    /\ UNCHANGED <<fn_vars, line_vars, mode, nlines, req_vars,
                   calls, images, yielded, chunk_count, total_bytes, dirs, files, exit_code, closed>>

\* lines 296-300
ReadPrompt ==
    /\ Reading
    /\ \E ln \in LoopLines :
         LET d == Decode(args, ln)
         IN  /\ d.op = "generate"
             /\ args' = [args EXCEPT !.prompt = PStr(d.value)]
    /\ console' = <<>>
    /\ pc' = "gen_start"
    /\ UNCHANGED <<fn_vars, line_vars, mode, pending, req_vars,
                   calls, images, yielded, chunk_count, total_bytes, dirs, files, exit_code, closed>>

\* generate_standard lines 311-336 and generate_streaming lines 282-300, up
\* to the construction of the params: parse_size and the load_* functions
\* end the process when the size or a file is bad
StartGeneration ==
    /\ pc = "gen_start"
    /\ LET stream == Truthy(args.stream)
           needs_files == ~stream /\ (Truthy(args.reference) \/ Truthy(args.controlnet)
                                       \/ Truthy(args.image))
       IN  \E all_exist \in (IF needs_files THEN BOOLEAN ELSE {TRUE}) :
             IF ~parse_size(args.size.s).ok
             THEN /\ ExitWith("Error: Invalid size format", args.size.s)
                  /\ UNCHANGED <<payload, low, is_stream>>
             ELSE IF ~all_exist
             THEN /\ ExitWith("Error: image not found", "")
                  /\ UNCHANGED <<payload, low, is_stream>>
             ELSE /\ payload' = args
                  /\ low' = FALSE
                  /\ is_stream' = stream
                  /\ pc' = "prepared"
                  /\ UNCHANGED <<console, exit_code, closed>>
    /\ images' = <<>>
    /\ UNCHANGED <<fn_vars, line_vars, mode, args, loop_vars, raw, schema, verdict, request,
                   calls, yielded, chunk_count, total_bytes, dirs, files>>

NextInteractive ==
    \/ ReadNothing
    \/ ReadExit
    \/ ReadUnset
    \/ ReadSet
    \/ FinishSet
    \/ ReadPrompt
    \/ StartGeneration
    \/ Dispatch
    \/ Interrupt

SpecInteractive == InitInteractive /\ [][NextInteractive]_vars

(***************************************************************************)
(* SpecLine: the body of the interactive loop (lines 229-300) for one      *)
(* line, as a function of the session record and the line, up to the call  *)
(* of the generation.                                                      *)
(***************************************************************************)
\* Mutant: the stream field of the record is not looked at.
generation_always_standard(ns) == "standard"

\* lines 297-300: the generation a prompt line calls
generation_for(ns) == IF Truthy(ns.stream) THEN "streaming" ELSE "standard"

Handled(ns, active, generation, msgs) ==
    [done |-> TRUE, args |-> ns, active |-> active, generation |-> generation,
     msgs |-> msgs]

\* lines 229-300: active is FALSE when the loop breaks
interactive_line(ns, defaults, ln) ==
    LET d == Decode(ns, ln)
    IN  CASE d.op = "none" -> Handled(ns, TRUE, "none", d.msgs)
          [] d.op = "exit" -> Handled(ns, FALSE, "none", d.msgs)
          [] d.op = "unset" ->
               Handled([ns EXCEPT ![d.key] = _normalize_unset_value(d.key, defaults)],
                       TRUE, "none", d.msgs)
          [] d.op = "set" ->
               LET applied == _apply_interactive_set(ns, defaults, d.key, d.value)
               IN  Handled(applied.ns, TRUE, "none", d.msgs \o applied.msgs)
          [] d.op = "generate" ->
               LET prompted == [ns EXCEPT !.prompt = PStr(d.value)]
               IN  Handled(prompted, TRUE, generation_for(prompted), d.msgs)

\* the records a line can find: the starting records, and the same after a
\* prompt line has set the prompt
LineSessions ==
    BaseSessions \cup {[s EXCEPT !.prompt = PStr("dog")] : s \in BaseSessions}

InitLine ==
    /\ FnIdle
    /\ RunIdle
    /\ session \in LineSessions
    /\ line \in Lines
    /\ handled = NoHandled

HandleLine ==
    /\ ~handled.done
    /\ line # <<>>
    /\ handled' = interactive_line(session, Defaults, line)
    /\ UNCHANGED <<fn_vars, run_vars, session, line>>

NextLine == HandleLine

SpecLine == InitLine /\ [][NextLine]_vars

(***************************************************************************)
(* Properties.                                                             *)
(***************************************************************************)
HasMsg(ch, msg) ==
    \E i \in 1..Len(console) : console[i].ch = ch /\ console[i].msg = msg
HasFailure(detail) ==
    \E i \in 1..Len(console) : console[i].ch = "fail" /\ console[i].v = JStr(detail)

\* C1: a request document is handled as LOW_LEVEL (sanitised, validated
\* against a low-level schema, sent through api_client) if and only if its
\* "parameters" value is a mapping and it has an "input" or an "action" key;
\* every other document is handled as HIGH_LEVEL.
C1_LowLevelShape(doc) ==
    /\ \E i \in 1..Len(doc) : doc[i][1] = "parameters" /\ doc[i][2].kind = "obj"
    /\ \E i \in 1..Len(doc) : doc[i][1] \in {"input", "action"}
C1_Classification ==
    mode = "request_json" =>
      /\ pc # "loaded" => (low <=> C1_LowLevelShape(raw))
      /\ schema # "" => (schema \in LowLevelSchemas <=> C1_LowLevelShape(raw))
      /\ schema # "" => (schema \in HighLevelSchemas <=> ~C1_LowLevelShape(raw))
      /\ \A i \in 1..Len(calls) :
           calls[i].api \in {"api_client.image.generate", "api_client.image.generate_stream"}
             <=> C1_LowLevelShape(raw)
C1_Witness ==
    /\ mode = "request_json"
    /\ schema \in LowLevelSchemas
    /\ calls # <<>>
    /\ HasKey(raw, "action")
    /\ ~HasKey(raw, "input")

\* C2: in every run of generate_from_request_json a transport call is made
\* only once the request has been validated and accepted, with the
\* validated request; when the validation refuses the request the run ends
\* in the error outcome with no transport call and no file written.
C2_ValidateBeforeDispatch ==
    mode = "request_json" =>
      /\ calls # <<>> =>
           /\ verdict = "accepted"
           /\ \A i \in 1..Len(calls) : calls[i].request = request
      /\ verdict = "refused" =>
           /\ calls = <<>>
           /\ DOMAIN files = {}
           /\ pc = "exited"
           /\ exit_code = 1
           /\ HasMsg("fail", "Error: Request JSON validation failed")
C2_Witness ==
    /\ mode = "request_json"
    /\ verdict = "refused"
    /\ pc = "exited"
    /\ low
    /\ is_stream

\* C3: at every line boundary of an interactive session, whatever /set,
\* shortcut and /unset commands came before, the session record passes the
\* range validation and its model, sampler, uc_preset and ref_type are in
\* their choice lists.
C3_Int(v, lo, hi) == v.kind = "int" /\ lo <= v.n /\ v.n <= hi
C3_Float(v, lo, hi) == v.kind = "float" /\ v.s # "nan" /\ lo <= v.n /\ v.n <= hi
C3_SessionValid ==
    (mode = "interactive" /\ pc # "set_applied") =>
      /\ C3_Int(args.steps, 1, 50)
      /\ C3_Int(args.n_images, 1, 8)
      /\ C3_Float(args.scale, 0, 10000)
      /\ C3_Float(args.ref_fidelity, 0, 1000)
      /\ C3_Float(args.ref_strength, 0, 1000)
      /\ C3_Float(args.controlnet_strength, 10, 1000)
      /\ C3_Float(args.strength, 10, 990)
      /\ C3_Float(args.noise, 0, 990)
      /\ args.model.s \in MODEL_CHOICES
      /\ args.sampler.s \in SAMPLER_CHOICES
      /\ args.uc_preset.s \in UC_PRESET_CHOICES
      /\ args.ref_type.s \in REF_TYPE_CHOICES
C3_Witness ==
    /\ mode = "interactive"
    /\ pc = "prompt"
    /\ nlines >= 2
    /\ HasMsg("warn", "Rejected value")

\* C4: a /set (or shortcut) whose value is rejected by the range validation
\* or by the choice-list check leaves the whole session record as it was
\* when the line was read; a value that is accepted is the new value of
\* the field.
C4_Rejected(msgs) ==
    \E i \in 1..Len(msgs) :
        msgs[i].ch = "warn" /\ msgs[i].msg \in {"Rejected value", "Invalid choice"}
C4_RejectedSetRestores ==
    [][(pc = "set_applied" /\ pc' = "prompt") =>
         IF C4_Rejected(console')
         THEN args' = pending.before
         ELSE args'[pending.attr] = pending.new_value]_vars
C4_Witness ==
    /\ mode = "interactive"
    /\ pc = "prompt"
    /\ \E i \in 1..Len(console) :
         console[i].msg = "Rejected value" /\ console[i].v = PStr("999")
    /\ args.steps # PInt(999)

\* C5: in interactive mode a generation that fails (transport error, stream
\* error, missing image file, bad size) leaves the loop active and the
\* process running.
C5_FailedGenerationKeepsLoop ==
    (mode = "interactive" /\ \E i \in 1..Len(console) : console[i].ch = "fail") =>
      (pc # "exited" /\ exit_code = -1)

\* C6: a stream that is exhausted without a chunk ends in the error
\* outcome, never in the success report; no chunk file is written, the
\* stream directory is the only thing created, and the streaming call was
\* made once.
C6_EmptyStream ==
    mode = "request_json" =>
      /\ (HasMsg("success", "Saved chunks")
            \/ HasMsg("success", "Streaming complete! Received bytes total"))
           => chunk_count >= 1
      /\ HasFailure(NoChunksText) =>
           /\ pc = "exited"
           /\ exit_code = 1
           /\ yielded = <<>>
           /\ DOMAIN files = {}
           /\ dirs = {<<Name("streaming_output", "")>>}
           /\ Len(calls) = 1
           /\ calls[1].api \in {"api_client.image.generate_stream", "image.generate_stream"}
           /\ \A i \in 1..Len(console) : console[i].ch # "success"
C6_Witness ==
    /\ mode = "request_json"
    /\ HasFailure(NoChunksText)

\* C7: the i-th chunk the stream yields is written, decoded, to
\* chunk_000i.png in the stream directory, i counting from 1 without gaps;
\* no other file is written; the success report gives the number of chunks
\* and the sum of their decoded lengths.
C7_Stem(i) ==
    CASE i = 1 -> "chunk_0001" [] i = 2 -> "chunk_0002" [] i = 3 -> "chunk_0003"
      [] i = 4 -> "chunk_0004" [] i = 5 -> "chunk_0005" [] OTHER -> "?"
C7_Path(i) == <<Name("streaming_output", ""), Name(C7_Stem(i), ".png")>>
C7_Bytes(image) ==
    IF image = <<"Q", "Q", "=", "=">> THEN <<65>> ELSE <<65, 66, 67>>
RECURSIVE C7_Total(_)
C7_Total(seq) == IF seq = <<>> THEN 0 ELSE Len(C7_Bytes(Head(seq))) + C7_Total(Tail(seq))
C7_ChunkFiles ==
    (mode = "request_json" /\ is_stream) =>
      /\ DOMAIN files = {C7_Path(i) : i \in 1..Len(yielded)}
      /\ \A i \in 1..Len(yielded) : files[C7_Path(i)] = C7_Bytes(yielded[i])
      /\ \A i \in 1..Len(console) :
           /\ (console[i].ch = "success" /\ console[i].msg = "Saved chunks")
                => (console[i].n = Len(yielded) /\ Len(yielded) >= 1)
           /\ (console[i].ch = "success"
                 /\ console[i].msg = "Streaming complete! Received bytes total")
                => console[i].n = C7_Total(yielded)
C7_Witness ==
    /\ mode = "request_json"
    /\ HasMsg("success", "Saved chunks")
    /\ Len(yielded) >= 2
    /\ yielded[1] # yielded[2]

\* C8: sanitising the result of _sanitize_low_level_payload again changes
\* nothing.
C8_Idempotent ==
    fn_stage = "twice" =>
      /\ ~fn_second.raised
      /\ fn_second.ret = fn_first.ret
C8_Witness ==
    /\ fn_stage = "twice"
    /\ fn_first.ret # fn_payload
    /\ DictGet(fn_first.ret, "parameters") # DictGet(fn_payload, "parameters")
    /\ Len(fn_first.ret) + 2 <= Len(fn_payload)

\* C9: _sanitize_low_level_payload returns the payload's whitelisted
\* envelope keys, in the payload's order and with the payload's values, the
\* "parameters" mapping likewise reduced to its whitelisted keys; a
\* "parameters" that is no mapping is returned as it is; the call does not
\* raise and leaves the payload it was given unchanged.
C9_Kept(result, given, allowed) ==
    /\ KeysOf(result) = KeysOf(given) \cap allowed
    /\ Len(result) = Cardinality(KeysOf(result))
    /\ \A i \in 1..Len(result) : \A j \in 1..Len(result) :
         i < j => IndexOf(given, result[i][1]) < IndexOf(given, result[j][1])
C9_Sanitized ==
    fn_stage \in {"once", "twice"} =>
      /\ ~fn_first.raised
      /\ fn_first.arg = fn_payload
      /\ C9_Kept(fn_first.ret, fn_payload, {"input", "model", "action", "parameters"})
      /\ \A i \in 1..Len(fn_first.ret) :
           LET k == fn_first.ret[i][1]
               v == fn_first.ret[i][2]
               given == DictGet(fn_payload, k)
           IN  IF k = "parameters" /\ given.kind = "obj"
               THEN /\ v.kind = "obj"
                    /\ C9_Kept(v.m, given.m, {"steps", "stream"})
                    /\ \A j \in 1..Len(v.m) : v.m[j][2] = DictGet(given.m, v.m[j][1])
               ELSE v = given
C9_Witness ==
    /\ fn_stage = "once"
    /\ HasKey(fn_payload, "zz_unknown")
    /\ DictGet(fn_payload, "parameters").kind = "obj"
    /\ HasKey(DictGet(fn_payload, "parameters").m, "ext_a")
    /\ HasKey(DictGet(fn_payload, "parameters").m, "stream")

\* C10: _normalize_low_level_stream_mode with force_stream false returns a
\* payload equal to the one it was given, whatever parameters.stream holds,
\* prints no warning and leaves the payload it was given unchanged.
C10_NoForceNoChange ==
    (fn_stage = "normalized" /\ ~fn_force) =>
      /\ ~fn_first.raised
      /\ fn_first.ret = fn_payload
      /\ fn_first.arg = fn_payload
      /\ fn_first.warns = <<>>
C10_Witness ==
    /\ fn_stage = "normalized"
    /\ ~fn_force
    /\ DictGet(fn_payload, "parameters").kind = "obj"
    /\ DictGet(DictGet(fn_payload, "parameters").m, "stream") = JStr("msgpack")

\* C11 (as stated): in the low-level pipeline, when the caller did not pass
\* the stream flag, the request validated and dispatched carries the
\* parameters.stream value the payload declared.
C11_Params(doc) == DictGet(doc, "parameters").m
C11_StreamFieldUntouched ==
    (mode = "request_json" /\ low /\ ~Truthy(args.stream) /\ request # <<>>) =>
      /\ HasKey(C11_Params(request), "stream") <=> HasKey(C11_Params(raw), "stream")
      /\ DictGet(C11_Params(request), "stream") = DictGet(C11_Params(raw), "stream")

\* C11 (amended): in the low-level pipeline, when the caller did not pass
\* the stream flag, the payload's declaration alone decides the dispatch:
\* a payload that declares no parameters.stream is validated and sent
\* through the single call without that field, its other parameters as
\* declared; a payload that declares parameters.stream, whatever the
\* value, is sent through the streaming call with parameters.stream "sse".
C11_DeclaredModeDecides ==
    (mode = "request_json" /\ low /\ ~Truthy(args.stream)
       /\ pc \notin {"loaded", "classified"}) =>
      LET declared == \E i \in 1..Len(C11_Params(raw)) : C11_Params(raw)[i][1] = "stream"
          sent == C11_Params(payload)
      IN  /\ is_stream <=> declared
          /\ request \in {<<>>, payload}
          /\ \A i \in 1..Len(sent) :
               sent[i][1] # "stream" => sent[i][2] = DictGet(C11_Params(raw), sent[i][1])
          /\ declared => DictGet(sent, "stream") = JStr("sse")
          /\ ~declared => ~HasKey(sent, "stream")
          /\ \A i \in 1..Len(calls) :
               calls[i].api = IF declared THEN "api_client.image.generate_stream"
                                          ELSE "api_client.image.generate"
C11_Witness ==
    /\ mode = "request_json"
    /\ low
    /\ ~Truthy(args.stream)
    /\ calls # <<>>
    /\ DictGet(C11_Params(raw), "stream") = JStr("msgpack")
    /\ DictGet(C11_Params(request), "stream") = JStr("sse")

\* C12: _normalize_low_level_stream_mode with force_stream true, on a
\* payload whose "parameters" is a mapping, returns the payload with
\* parameters.stream equal to "sse" and everything else as given; it warns,
\* naming the value it discards, exactly when the payload held a
\* parameters.stream value (not null) other than "sse".
C12_Others(map) == {map[i] : i \in {j \in 1..Len(map) : map[j][1] # "stream"}}
C12_ForcedStream ==
    (fn_stage = "normalized" /\ fn_force
       /\ DictGet(fn_payload, "parameters").kind = "obj") =>
      LET given == DictGet(fn_payload, "parameters").m
          declared == IF \E i \in 1..Len(given) : given[i][1] = "stream"
                      THEN DictGet(given, "stream") ELSE JNull
          result == fn_first.ret
      IN  /\ ~fn_first.raised
          /\ fn_first.arg = fn_payload
          /\ KeySeq(result) = KeySeq(fn_payload)
          /\ \A i \in 1..Len(result) :
               result[i][1] # "parameters" => result[i] = fn_payload[i]
          /\ DictGet(result, "parameters").kind = "obj"
          /\ DictGet(DictGet(result, "parameters").m, "stream") = JStr("sse")
          /\ C12_Others(DictGet(result, "parameters").m) = C12_Others(given)
          /\ Len(DictGet(result, "parameters").m)
               = Cardinality(C12_Others(given)) + 1
          /\ IF declared \notin {JNull, JStr("sse")}
             THEN /\ Len(fn_first.warns) = 1
                  /\ fn_first.warns[1].ch = "warn"
                  /\ fn_first.warns[1].v = declared
             ELSE fn_first.warns = <<>>
C12_Witness ==
    /\ fn_stage = "normalized"
    /\ fn_force
    /\ DictGet(fn_payload, "parameters").kind = "obj"
    /\ DictGet(DictGet(fn_payload, "parameters").m, "stream") = JStr("msgpack")
    /\ HasKey(DictGet(fn_payload, "parameters").m, "steps")
    /\ fn_first.warns # <<>>

\* C13: a low-level payload is dispatched as a stream exactly when the
\* caller passed the stream flag or its sanitized parameters declare a
\* "stream" field; a run makes at most one transport call, generate_stream
\* when streaming and generate otherwise, and ends in exactly one outcome;
\* every low-level request sent through generate_stream has
\* parameters.stream equal to "sse".
C13_Succeeded ==
    \/ HasMsg("success", "Saved chunks")
    \/ HasMsg("success", "Successfully generated images")
C13_Failed == \E i \in 1..Len(console) : console[i].ch = "fail"
C13_LowLevelDispatch ==
    (mode = "request_json" /\ low /\ pc \notin {"loaded", "classified"}) =>
      /\ is_stream <=>
           (args.stream = PBool(TRUE)
              \/ \E i \in 1..Len(C11_Params(raw)) : C11_Params(raw)[i][1] = "stream")
      /\ Len(calls) <= 1
      /\ \A i \in 1..Len(calls) :
           /\ calls[i].api = IF is_stream THEN "api_client.image.generate_stream"
                                          ELSE "api_client.image.generate"
           /\ calls[i].api = "api_client.image.generate_stream"
                => DictGet(C11_Params(calls[i].request), "stream") = JStr("sse")
      /\ pc = "exited" =>
           /\ C13_Succeeded # C13_Failed
           /\ exit_code = IF C13_Succeeded THEN 0 ELSE 1
      /\ pc # "exited" => (~C13_Succeeded /\ ~C13_Failed /\ exit_code = -1)
C13_Witness ==
    /\ mode = "request_json"
    /\ low
    /\ pc = "exited"
    /\ args.stream = PBool(TRUE)
    /\ ~HasKey(C11_Params(raw), "stream")
    /\ C13_Succeeded
    /\ Len(calls) = 1

\* C14: right after `/unset reference`, `/unset controlnet` or
\* `/unset image` the field is absent and its dependent fields hold their
\* pristine defaults (ref_fidelity and ref_strength; controlnet_strength;
\* strength and noise), whatever they held before.
C14_UnsetResetsSiblings ==
    handled.done =>
      /\ line = Cmd(<<"unset", "reference">>) =>
           /\ handled.args.reference = PyNone
           /\ handled.args.ref_fidelity = Defaults.ref_fidelity
           /\ handled.args.ref_strength = Defaults.ref_strength
      /\ line = Cmd(<<"unset", "controlnet">>) =>
           /\ handled.args.controlnet = PyNone
           /\ handled.args.controlnet_strength = Defaults.controlnet_strength
      /\ line = Cmd(<<"unset", "image">>) =>
           /\ handled.args.image = PyNone
           /\ handled.args.strength = Defaults.strength
           /\ handled.args.noise = Defaults.noise

\* C15: `/unset <key>` with a key that names a field of the record (after
\* alias resolution) changes that field and no other: to the absent value
\* for seed, negative_prompt, reference, character_prompt, controlnet and
\* image, to the default of an argument-free parse for every other field;
\* with an unknown key, or with more or fewer than two tokens, the record
\* stays as it was.
C15_Field(word) ==
    CASE word = "st" -> "steps"
      [] word = "uc-preset" -> "uc_preset"
      [] word = "negative-prompt" -> "negative_prompt"
      [] word = "ref-type" -> "ref_type"
      [] word = "ref-fidelity" -> "ref_fidelity"
      [] word = "ref-strength" -> "ref_strength"
      [] word = "character-prompt" -> "character_prompt"
      [] word = "controlnet-strength" -> "controlnet_strength"
      [] word = "n-images" -> "n_images"
      [] word = "stream-dir" -> "stream_dir"
      [] OTHER -> word
C15_Absent ==
    {"seed", "negative_prompt", "reference", "character_prompt", "controlnet", "image"}
C15_UnsetLine ==
    /\ line.kind = "text"
    /\ line.slashes = 1
    /\ ~line.quote_error
    /\ Len(line.words) >= 1
    /\ line.words[1] = "unset"
C15_Unset ==
    (handled.done /\ C15_UnsetLine) =>
      /\ handled.active
      /\ handled.generation = "none"
      /\ IF Len(line.words) = 2 /\ C15_Field(line.words[2]) \in DOMAIN session
         THEN LET field == C15_Field(line.words[2])
              IN  /\ handled.args[field] = IF field \in C15_Absent THEN JNull
                                           ELSE Defaults[field]
                  /\ \A other \in DOMAIN session \ {field} :
                       handled.args[other] = session[other]
         ELSE handled.args = session
C15_Witness ==
    /\ handled.done
    /\ line = Cmd(<<"unset", "st">>)
    /\ session.steps = PInt(50)
    /\ handled.args.steps = PInt(23)

\* C16 (as stated): a non-empty line that does not start with "/" sets the
\* prompt of the record to the line and calls one generation, the streaming
\* one exactly when the record's stream field is true; a line that starts
\* with "/" calls no generation and leaves the prompt as it was.
C16_Text(words) ==
    CASE words = <<"cat">> -> "cat"
      [] words = <<"1girl,", "maid">> -> "1girl, maid"
      [] OTHER -> "?"
C16_IsPromptLine == line.kind = "text" /\ line.slashes = 0 /\ line.words # <<>>
C16_PromptLineGenerates ==
    (handled.done /\ C16_IsPromptLine) =>
      /\ handled.args.prompt = PStr(C16_Text(line.words))
      /\ \A other \in DOMAIN session \ {"prompt"} : handled.args[other] = session[other]
      /\ handled.generation = IF session.stream = PBool(TRUE) THEN "streaming"
                              ELSE "standard"
      /\ handled.active
C16_SlashLineKeepsPrompt ==
    /\ C16_PromptLineGenerates
    /\ (handled.done /\ line.kind = "text" /\ line.slashes >= 1) =>
         /\ handled.generation = "none"
         /\ handled.args.prompt = session.prompt

\* C16 (amended): a non-empty line that does not start with "/" sets the
\* prompt of the record to the line and calls one generation, the streaming
\* one exactly when the record's stream field is true; a line that starts
\* with "/" calls no generation, and changes the prompt only when it is
\* `/unset prompt`, which puts the prompt back to its default.
C16_PromptOnlyByUnset ==
    /\ C16_PromptLineGenerates
    /\ (handled.done /\ line.kind = "text" /\ line.slashes >= 1) =>
         /\ handled.generation = "none"
         /\ IF line = Cmd(<<"unset", "prompt">>)
            THEN handled.args.prompt = Defaults.prompt
            ELSE handled.args.prompt = session.prompt
C16_Witness ==
    /\ handled.done
    /\ line = PromptLine(<<"1girl,", "maid">>)
    /\ session.prompt = PStr("dog")
    /\ session.stream = PBool(TRUE)
    /\ handled.generation = "streaming"

\* C17: the interactive loop is left only by `/quit`, `/exit` (in any
\* letter case) or the end of input: a session that has ended has ended on
\* such a line, with nothing printed but the end-of-input newline.
C17_LeftOnlyByExitLine ==
    (mode = "interactive" /\ pc = "exited") =>
      /\ exit_code = 0
      /\ console \in {<<>>, <<info("", 0)>>}

\* C20: an empty line, `/help`, `/show`, a shortcut without argument,
\* `/set` with fewer than two arguments, `/set` with an unknown key, `/set`
\* with a value its key cannot be cast from, a line that cannot be split
\* into tokens and any other unknown "/" command each leave the record as
\* it was, keep the loop going and call no generation.
C20_Lines ==
    {EmptyLine, BadQuoteLine,
     Cmd(<<"help">>), Cmd(<<"show">>),
     Cmd(<<"m">>), Cmd(<<"res">>), Cmd(<<"st">>), Cmd(<<"cfg">>), Cmd(<<"sp">>),
     Cmd(<<"set">>), Cmd(<<"set", "steps">>),
     Cmd(<<"set", "no-such", "1">>), Cmd(<<"set", "uc_preset", "heavy">>),
     Cmd(<<"set", "steps", "abc">>), Cmd(<<"st", "abc">>), Cmd(<<"set", "seed", "abc">>),
     Cmd(<<"set", "quality", "maybe">>), Cmd(<<"set", "stream", "maybe">>),
     Cmd(<<"bogus">>), Cmd(<<"">>), Line("text", 2, <<"quit">>, FALSE)}
C20_NoEffectLines ==
    (handled.done /\ line \in C20_Lines) =>
      /\ handled.args = session
      /\ handled.active
      /\ handled.generation = "none"
C20_Witness ==
    /\ handled.done
    /\ line = Cmd(<<"set", "seed", "abc">>)
    /\ session.seed = PInt(42)
    /\ handled.msgs # <<>>

\* C18: _save_images with exactly one image writes exactly one file, at
\* the destination itself when it has a file extension ("out.png") and at
\* image.png inside it when it has none ("out" gives out/image.png),
\* creating the directory the file goes into.
C18_Saved ==
    /\ mode = "request_json"
    /\ ~is_stream
    /\ HasMsg("success", "Successfully generated images")
C18_SingleImage ==
    (C18_Saved /\ Len(images) = 1) =>
      LET with_suffix == args.output = PStr("out.png")
          dest == IF with_suffix THEN <<Name("out", ".png")>>
                  ELSE <<Name("out", ""), Name("image", ".png")>>
      IN  /\ args.output \in {PStr("out"), PStr("out.png")}
          /\ DOMAIN files = {dest}
          /\ files[dest] = images[1]
          /\ dirs = IF with_suffix THEN {} ELSE {<<Name("out", "")>>}
C18_Witness ==
    /\ C18_Saved
    /\ Len(images) = 1
    /\ args.output = PStr("out")
    /\ DOMAIN files = {<<Name("out", ""), Name("image", ".png")>>}

\* C19: _save_images with n >= 2 images writes exactly the n files
\* image_0001.png .. image_n, in list order, into the destination taken as
\* a directory, the extension stripped when there is one: destination
\* "out" and destination "out.png" both give out/image_0001.png,
\* out/image_0002.png, ...
C19_Stem(i) ==
    CASE i = 1 -> "image_0001" [] i = 2 -> "image_0002" [] i = 3 -> "image_0003"
      [] i = 4 -> "image_0004" [] OTHER -> "?"
C19_Path(i) == <<Name("out", ""), Name(C19_Stem(i), ".png")>>
C19_ManyImages ==
    (C18_Saved /\ Len(images) >= 2) =>
      /\ DOMAIN files = {C19_Path(i) : i \in 1..Len(images)}
      /\ \A i \in 1..Len(images) : files[C19_Path(i)] = images[i]

\* C21: for each canonical key k of the alias table and each spelling a of
\* k or of one of its aliases, in any letter case, `/set a v` and the
\* shortcut `/a v` take the record to the record `/set k v` takes it to,
\* for every value v; a shortcut without argument changes nothing.
C21_Keys == {"model", "size", "steps", "scale", "sampler"}
C21_Spellings(k) ==
    CASE k = "model" -> {"m", "M", "model", "Model"}
      [] k = "size" -> {"res", "Res", "resolution", "RESOLUTION", "size", "Size"}
      [] k = "steps" -> {"st", "ST", "steps", "Steps"}
      [] k = "scale" -> {"cfg", "CFG", "scale", "SCALE"}
      [] k = "sampler" -> {"sp", "Sp", "sampler", "Sampler"}
C21_Same(ln) ==
    LET other == interactive_line(session, Defaults, ln)
    IN  /\ other.args = handled.args
        /\ other.active = handled.active
        /\ other.generation = handled.generation
C21_AliasesAgree ==
    handled.done =>
      /\ \A k \in C21_Keys : \A v \in SetValues(k) :
           line = Cmd(<<"set", k, v>>) =>
             \A a \in C21_Spellings(k) :
               /\ C21_Same(Cmd(<<"set", a, v>>))
               /\ C21_Same(Cmd(<<"SET", a, v>>))
               /\ C21_Same(Cmd(<<a, v>>))
      /\ \A k \in C21_Keys : \A a \in C21_Spellings(k) :
           LET shown == interactive_line(session, Defaults, Cmd(<<a>>))
           IN  shown.args = session /\ shown.active /\ shown.generation = "none"
C21_Witness ==
    /\ handled.done
    /\ line = Cmd(<<"set", "steps", "30">>)
    /\ session.steps = PInt(50)
    /\ handled.args.steps = PInt(30)
    /\ interactive_line(session, Defaults, Cmd(<<"ST", "30">>)).args.steps = PInt(30)

\* C22: the document {"prompt": "cat", "model": "nai-diffusion-4-5-full",
\* "parameters": {"steps": 60}} is handled as HIGH_LEVEL, is refused by the
\* validation (steps 60 is above 50) and the run ends in the error outcome
\* without a transport call.
C22_Document ==
    <<<<"prompt", JStr("cat")>>, <<"model", JStr("nai-diffusion-4-5-full")>>,
      <<"parameters", JObj(<<<<"steps", JNum(60)>>>>)>>>>
C23_FailedAt ==
    IF HasFailure("write error") THEN chunk_count
    ELSE IF HasFailure("transport error") /\ dirs # {} THEN chunk_count + 1
    ELSE 0
C23_EarlierChunksKept ==
    (mode = "request_json" /\ is_stream /\ C23_FailedAt >= 2) =>
      /\ pc = "exited"
      /\ exit_code = 1
      /\ Len(yielded) = C23_FailedAt - 1
      /\ DOMAIN files = {C7_Path(i) : i \in 1..(C23_FailedAt - 1)}
      /\ \A i \in 1..(C23_FailedAt - 1) : files[C7_Path(i)] = C7_Bytes(yielded[i])
      /\ \A i \in 1..Len(console) : console[i].ch # "success"
C23_Witness ==
    /\ mode = "request_json"
    /\ is_stream
    /\ HasFailure("write error")
    /\ chunk_count = 3
    /\ Len(yielded) = 2
    /\ yielded[1] # yielded[2]

\* C24: in interactive mode an interrupt that arrives while a
\* single-response generation is in flight does not end the process: the
\* loop stays active and reads the next line.
\* (Only an interrupt ends the process with status 130.)
C24_InterruptKeepsLoop ==
    (mode = "interactive" /\ ~is_stream /\ calls # <<>>) =>
      ~(pc = "exited" /\ exit_code = 130)

\* C25: while a /set command is handled, also between the assignment of
\* the new value and the end of its validation, the live session record
\* passes the range validation and its model, sampler, uc_preset and
\* ref_type are in their choice lists.
C25_LiveRecordValidThroughout ==
    (mode = "interactive" /\ pc = "set_applied") =>
      /\ C3_Int(args.steps, 1, 50)
      /\ C3_Int(args.n_images, 1, 8)
      /\ C3_Float(args.scale, 0, 10000)
      /\ C3_Float(args.ref_fidelity, 0, 1000)
      /\ C3_Float(args.ref_strength, 0, 1000)
      /\ C3_Float(args.controlnet_strength, 10, 1000)
      /\ C3_Float(args.strength, 10, 990)
      /\ C3_Float(args.noise, 0, 990)
      /\ args.model.s \in MODEL_CHOICES
      /\ args.sampler.s \in SAMPLER_CHOICES
      /\ args.uc_preset.s \in UC_PRESET_CHOICES
      /\ args.ref_type.s \in REF_TYPE_CHOICES

C27_Keys == {"reference", "controlnet", "image", "negative-prompt", "character-prompt"}
C27_Words == {"none", "null", "None", "x.png"}
C27_SetNeverClears ==
    handled.done =>
      /\ LET d == Decode(session, line)
         IN  (d.op = "set" /\ d.key \in C27_Keys) =>
               handled.args = [session EXCEPT ![SetterAttr(d.key)] = PStr(d.value)]
      /\ \A k \in C27_Keys : \A v \in C27_Words :
           interactive_line(session, Defaults, Cmd(<<"set", k, v>>)).args
             = [session EXCEPT ![SetterAttr(k)] = PStr(v)]
      /\ \A k \in C27_Keys :
           (session[SetterAttr(k)] # PyNone /\ handled.args[SetterAttr(k)] = PyNone) =>
             (line.kind = "text" /\ line.slashes = 1 /\ Lower(line.words[1]) = "unset")
C27_Witness ==
    /\ handled.done
    /\ line = Cmd(<<"set", "reference", "none">>)
    /\ session.reference = PStr("ref.png")
    /\ handled.args.reference = PStr("none")
    /\ handled.args.ref_strength = PFloat(0)
    /\ handled.args.ref_strength # Defaults.ref_strength

\* C28: /set size v and /res v are accepted for every string v, so the
\* session record can hold a size that parse_size rejects; with such a size
\* the generation of the next prompt line never reaches validation or a
\* transport call: the process ends with exit status 1 on the size error.
C28_BadSize == ~parse_size(args.size.s).ok
C28_Running == {"prepared", "validated", "received", "stream_open", "streaming"}
C28_BadSizeEndsProcess ==
    mode = "interactive" =>
      /\ _normalize_set_key("res") = "size"
      /\ pc = "prompt" =>
           \A v \in SetValues("size") :
             LET begun == SetBegin(args, "size", v)
             IN  begun.status = "applied" /\ begun.ns = [args EXCEPT !.size = PStr(v)]
      /\ (pc = "set_applied" /\ pending.key = "size") =>
           LET done == SetFinish(args, pending, Defaults)
           IN  done.accepted /\ done.ns = args /\ args.size = PStr(pending.value)
      /\ C28_BadSize =>
           /\ pc \notin C28_Running
           /\ pc = "exited" =>
                \/ exit_code = 1 /\ HasFailure(args.size.s) /\ args.prompt # PyNone
                \/ exit_code = 0
C28_Witness ==
    /\ mode = "interactive"
    /\ args.size = PStr("12xab")
    /\ args.prompt = PStr("cat")
    /\ pc = "exited"
    /\ exit_code = 1
    /\ calls = <<>>
    /\ HasMsg("fail", "Error: Invalid size format")

\* C29: a low-level document that declares parameters.stream = null, run
\* without the stream flag, is a streaming request because the key is
\* there: it is validated against the streaming schema and sent through
\* generate_stream with parameters.stream = "sse", and no override warning
\* is printed.
C29_Case ==
    /\ mode = "request_json"
    /\ low
    /\ ~Truthy(args.stream)
    /\ HasKey(C11_Params(raw), "stream")
    /\ DictGet(C11_Params(raw), "stream") = JNull
C29_NullStreamDeclares ==
    (C29_Case /\ pc \notin {"loaded", "classified"}) =>
      /\ is_stream
      /\ DictGet(C11_Params(payload), "stream") = JStr("sse")
      /\ schema \in {"", "StreamImageGenerationRequest"}
      /\ \A i \in 1..Len(console) : console[i].ch # "warn"
      /\ \A i \in 1..Len(calls) :
           /\ calls[i].api = "api_client.image.generate_stream"
           /\ DictGet(C11_Params(calls[i].request), "stream") = JStr("sse")
      /\ pc \notin {"received"}
C29_Witness ==
    /\ C29_Case
    /\ pc = "exited"
    /\ exit_code = 0
    /\ Len(calls) = 1
    /\ calls[1].api = "api_client.image.generate_stream"
    /\ Len(yielded) >= 1

\* C30: when the single-response call returns no image, no file is
\* written and no "Saved" line is printed; only the destination directory
\* is created, and the run ends in success, reporting a count of 0 with
\* exit status 0.
C30_ZeroReturned ==
    /\ mode = "request_json"
    /\ ~is_stream
    /\ calls # <<>>
    /\ images = <<>>
    /\ \A i \in 1..Len(console) : console[i].ch # "fail"
C30_Destination ==
    LET output == PathOf(args.output.s)
    IN  IF PathSuffix(output) # "" THEN PathParent(output) ELSE output
C30_ZeroImagesSucceed ==
    C30_ZeroReturned =>
      /\ pc \in {"received", "exited"}
      /\ DOMAIN files = {}
      /\ \A i \in 1..Len(console) : console[i].msg # "Saved"
      /\ pc = "received" =>
           /\ _save_images(images, PathOf(args.output.s)).writes = <<>>
           /\ dirs = {}
      /\ pc = "exited" =>
           /\ dirs = MkdirParents(C30_Destination)
           /\ console[Len(console)] = success("Successfully generated images", 0)
           /\ exit_code = 0
C30_Witness ==
    /\ C30_ZeroReturned
    /\ pc = "exited"
    /\ exit_code = 0
    /\ dirs # {}
    /\ DOMAIN files = {}
    /\ HasMsg("success", "Successfully generated images")

====
